---- MODULE Spec2Model ----
(***************************************************************************)
(* fail2ban-ui: the settings store of internal/config (settings.go and     *)
(* DebugLog).  The process-wide value currentSettings is guarded by        *)
(* settingsLock, persisted as JSON by saveSettings, and every save also    *)
(* rewrites the fail2ban action file.                                      *)
(*                                                                         *)
(* Two specifications share the settings:                                  *)
(*   Spec      one settings call at a time, each call one action, with     *)
(*             every outcome of the two file writes;                       *)
(*   SpecConc  several request goroutines, each call broken into its lock, *)
(*             read, write, save and unlock steps, file writes succeeding. *)
(* The further specifications (SpecAlias, SpecLog, SpecJails, SpecAction,  *)
(* SpecConf, SpecReconcile, SpecPatch, SpecReload, SpecRelock) come with   *)
(* their own variables further down; the variables a specification does    *)
(* not use stay at rest in it.                                             *)
(***************************************************************************)
EXTENDS Integers, Sequences, FiniteSets, TLC

(***************************************************************************)
(* Bounds                                                                  *)
(***************************************************************************)
\* longest alertCountries list a payload or a settings file carries
MaxCountries == 2

\* number of settings calls the request goroutines start in SpecConc
MaxOps == 3

(***************************************************************************)
(* AppSettings (settings.go:41-56).  Language and the SMTP block are       *)
(* carried by no comparison and no branch of the operations modelled here; *)
(* Debug stands for the fields that are not policy-affecting.              *)
(* A nil and an empty AlertCountries slice are both the empty sequence:    *)
(* the only place that tells them apart is setDefaults, which runs on the  *)
(* zero value only, where the slice is nil.                                *)
(***************************************************************************)
ZeroSettings ==
    [ Debug            |-> FALSE,
      ReloadNeeded     |-> FALSE,
      AlertCountries   |-> << >>,
      BantimeIncrement |-> FALSE,
      IgnoreIP         |-> "",
      Bantime          |-> "",
      Findtime         |-> "",
      Maxretry         |-> 0,
      Destemail        |-> "" ]

\* setDefaults: fills every field that still has its zero value
setDefaults(s) ==
    [ s EXCEPT
        !.AlertCountries = IF s.AlertCountries = << >> THEN << "ALL" >> ELSE @,
        !.Bantime        = IF s.Bantime = "" THEN "48h" ELSE @,
        !.Findtime       = IF s.Findtime = "" THEN "30m" ELSE @,
        !.Maxretry       = IF s.Maxretry = 0 THEN 3 ELSE @,
        !.Destemail      = IF s.Destemail = "" THEN "alerts@example.com" ELSE @,
        !.IgnoreIP       = IF s.IgnoreIP = "" THEN "127.0.0.1/8 ::1" ELSE @ ]

(***************************************************************************)
(* strconv.Atoi on the maxretry values the jail.local inputs carry         *)
(***************************************************************************)
Atoi(str) ==
    CASE str = "5"  -> [ok |-> TRUE,  val |-> 5]
      [] str = "0"  -> [ok |-> TRUE,  val |-> 0]
      [] str = "-1" -> [ok |-> TRUE,  val |-> -1]
      [] OTHER      -> [ok |-> FALSE, val |-> 0]

(***************************************************************************)
(* initializeFromJailFile: jail is the outcome of opening and scanning     *)
(* jail.local, readable or not, with the key -> value map the scan built   *)
(* (keys lower-cased).  An unreadable file returns before any assignment.  *)
(***************************************************************************)
initializeFromJailFile(s, jail) ==
    IF ~jail.readable THEN s
    ELSE LET m == jail.settings
             has(k) == k \in DOMAIN m
         IN [ s EXCEPT
                !.Bantime   = IF has("bantime") THEN m["bantime"] ELSE @,
                !.Findtime  = IF has("findtime") THEN m["findtime"] ELSE @,
                !.Maxretry  = IF has("maxretry") /\ Atoi(m["maxretry"]).ok
                              THEN Atoi(m["maxretry"]).val ELSE @,
                !.IgnoreIP  = IF has("ignoreip") THEN m["ignoreip"] ELSE @,
                !.Destemail = IF has("destemail") THEN m["destemail"] ELSE @ ]

\* the jail.local outcomes start-up is tried on
JailFiles ==
    { [readable |-> FALSE, settings |-> [bantime |-> "1h"]],
      [readable |-> TRUE,  settings |-> [loglevel |-> "INFO"]],
      [readable |-> TRUE,  settings |-> [bantime |-> "1h", findtime |-> "10m",
                                         maxretry |-> "5", ignoreip |-> "10.0.0.0/8",
                                         destemail |-> "ops@example.com"]],
      [readable |-> TRUE,  settings |-> [maxretry |-> "0"]],
      [readable |-> TRUE,  settings |-> [maxretry |-> "-1"]],
      [readable |-> TRUE,  settings |-> [maxretry |-> "many"]] }

(***************************************************************************)
(* json.MarshalIndent / json.Unmarshal of AppSettings: the object carries  *)
(* the struct's json tags as its member names.                             *)
(***************************************************************************)
Marshal(s) ==
    [ debug            |-> s.Debug,
      reloadNeeded     |-> s.ReloadNeeded,
      alertCountries   |-> s.AlertCountries,
      bantimeIncrement |-> s.BantimeIncrement,
      ignoreip         |-> s.IgnoreIP,
      bantime          |-> s.Bantime,
      findtime         |-> s.Findtime,
      maxretry         |-> s.Maxretry,
      destemail        |-> s.Destemail ]

Unmarshal(j) ==
    [ Debug            |-> j.debug,
      ReloadNeeded     |-> j.reloadNeeded,
      AlertCountries   |-> j.alertCountries,
      BantimeIncrement |-> j.bantimeIncrement,
      IgnoreIP         |-> j.ignoreip,
      Bantime          |-> j.bantime,
      Findtime         |-> j.findtime,
      Maxretry         |-> j.maxretry,
      Destemail        |-> j.destemail ]

(***************************************************************************)
(* Input domains                                                           *)
(***************************************************************************)
SeqsUpTo(S, n) == UNION { [1..k -> S] : k \in 0..n }

\* alertCountries lists: every order and repetition of two codes up to the
\* bound, and the all-match sentinel
CountryLists == SeqsUpTo({"CH", "DE"}, MaxCountries) \cup { << "ALL" >> }

DefaultSettings == setDefaults(ZeroSettings)

\* the policy fields of a payload: the defaults, or the defaults with one
\* field changed
PolicyVariants ==
    { DefaultSettings,
      [DefaultSettings EXCEPT !.BantimeIncrement = TRUE],
      [DefaultSettings EXCEPT !.IgnoreIP = "10.0.0.0/8"],
      [DefaultSettings EXCEPT !.Bantime = "1h"],
      [DefaultSettings EXCEPT !.Findtime = "10m"],
      [DefaultSettings EXCEPT !.Maxretry = 5],
      [DefaultSettings EXCEPT !.Maxretry = -1],
      [DefaultSettings EXCEPT !.Destemail = "ops@example.com"] }

\* request bodies of UpdateSettingsHandler, and contents of a loadable
\* settings file: a payload is the defaults, or changes one of the scalar
\* policy fields, the country list and the debug flag of the defaults, and
\* carries either reloadNeeded flag
Payloads ==
    { [x[1] EXCEPT !.AlertCountries = x[2], !.Debug = x[3], !.ReloadNeeded = r] :
        x \in { y \in PolicyVariants \X CountryLists \X BOOLEAN :
                  \/ y[2] = << "ALL" >> /\ ~y[3]
                  \/ y[1] = DefaultSettings /\ ~y[3]
                  \/ y[1] = DefaultSettings /\ y[2] = << "ALL" >> },
        r \in BOOLEAN }

(***************************************************************************)
(* State                                                                   *)
(***************************************************************************)
VARIABLES
    phase,            \* "boot" before the package's init() has run, then "run"
    currentSettings,  \* settings.go:68, the in-memory copy
    settingsFile,     \* fail2ban-ui-settings.json: loadable or not, and its JSON
    actionFile,       \* action.d/ui-custom-action.conf: "absent", "written", "unknown"
    last,             \* the call that returned last: what it was given and what it gave
    settingsLock,     \* settings.go:69, the RWMutex: its writer and its readers
    pc,               \* SpecConc: where each request goroutine stands
    local,            \* SpecConc: each goroutine's argument, locals and result
    opsStarted,       \* SpecConc: calls started so far
    serialSettings    \* SpecConc: the value the calls give when run one after another,
                      \* in the order they took the lock

\* SpecAlias: the []string values of AlertCountries as Go keeps them, a slice
\* header over a backing array
VARIABLES
    heap,             \* the backing arrays allocated so far, by number
    aliasStored,      \* currentSettings: ReloadNeeded and the AlertCountries header
    aliasSnapshot,    \* the value GetSettings returned last, as its caller holds it
    aliasPayload,     \* the value passed to UpdateSettings last, as its caller holds it
    aliasExpected,    \* the alertCountries the last update (or init) was given
    aliasSnapshotSeen \* the snapshot as GetSettings returned it and its holder changed it

\* SpecLog: a ban log and what the parser made of it
VARIABLES
    logLines,         \* the lines of the ban log
    logStage,         \* "start", then "parsed", "listed", "listedTwice" by the calls made
    logErr,           \* the error the call returned
    eventsByJail,     \* what ParseBanLog returned
    lastFive,         \* what GetLastFiveBans returned
    secondFive        \* what a second call of GetLastFiveBans returned

\* SpecJails: the daemon behind fail2ban-client, and a call of client.go
VARIABLES
    fail2banClient,   \* what fail2ban-client answers: the jails, their addresses
    hostClock,        \* time.Now() and the host's offset from UTC
    logReadOk,        \* whether the ban log can be read to its end
    jailsCall         \* the call made and what it returned

\* SpecAction: renderings of the action file
VARIABLES
    renderArgs,       \* the country lists of two renderings, and a banned address's country
    rendered          \* the texts rendered so far

\* SpecConf: the jail files and a call of the reconciler
VARIABLES
    confFiles,        \* jail.local and the entries of jail.d
    confCall          \* the call made and what it returned

\* SpecPatch: jail.local and the runs of setupGeoCustomAction
VARIABLES
    jailLocal,        \* jail.local: whether it opens, its lines, its final newline
    patchCall         \* the runs made, and the file as the call started with it

\* SpecReload: the reload endpoint next to update calls
VARIABLES
    reloadCall        \* where ReloadFail2banHandler stands, and what the reloads covered

storeVars == << phase, currentSettings, settingsFile, actionFile, last >>

concVars == << settingsLock, pc, local, opsStarted, serialSettings >>

aliasVars == << heap, aliasStored, aliasSnapshot, aliasPayload, aliasExpected, aliasSnapshotSeen >>

logVars == << logLines, logStage, logErr, eventsByJail, lastFive, secondFive >>

jailsVars == << fail2banClient, hostClock, logReadOk, jailsCall >>

actionVars == << renderArgs, rendered >>

confVars == << confFiles, confCall >>

patchVars == << jailLocal, patchCall >>

reloadVars == << reloadCall >>

otherVars == << aliasVars, logVars, jailsVars, actionVars, confVars, patchVars, reloadVars >>

vars == << storeVars, concVars, otherVars >>

\* a slice header: the backing array and the length; the nil slice has neither
NilSlice == [arr |-> 0, len |-> 0]

NotHeld == [held |-> FALSE, ReloadNeeded |-> FALSE, AlertCountries |-> NilSlice]

\* a settings file that is missing or does not decode (loadSettings returns an
\* error), or whose write failed and left unspecified bytes
UnloadableFile == [loadable |-> FALSE, json |-> Marshal(ZeroSettings)]

LoadableFile(s) == [loadable |-> TRUE, json |-> Marshal(s)]

(***************************************************************************)
(* equalStringSlices (settings.go:432-446)                                 *)
(***************************************************************************)
equalStringSlices(a, b) ==
    IF Len(a) # Len(b) THEN FALSE
    ELSE LET m == { a[i] : i \in 1..Len(a) }
         IN  \A i \in 1..Len(b) : b[i] \in m

(***************************************************************************)
(* The merge of UpdateSettings (settings.go:398-418): the payload with its *)
(* ReloadNeeded recomputed against the stored settings.                    *)
(***************************************************************************)
\* the merge with the else branch keeping the payload's flag alone
MergedSettings_DropsOld(old, new) ==
    LET rn1 == IF \/ old.BantimeIncrement # new.BantimeIncrement
                  \/ old.IgnoreIP # new.IgnoreIP
                  \/ old.Bantime # new.Bantime
                  \/ old.Findtime # new.Findtime
                  \/ old.Destemail # new.Destemail
                  \/ old.Maxretry # new.Maxretry
               THEN TRUE
               ELSE new.ReloadNeeded
        rn2 == IF ~equalStringSlices(old.AlertCountries, new.AlertCountries)
               THEN TRUE
               ELSE rn1
    IN  [new EXCEPT !.ReloadNeeded = rn2]

MergedSettings(old, new) ==
    LET rn1 == IF \/ old.BantimeIncrement # new.BantimeIncrement
                  \/ old.IgnoreIP # new.IgnoreIP
                  \/ old.Bantime # new.Bantime
                  \/ old.Findtime # new.Findtime
                  \/ old.Destemail # new.Destemail
                  \/ old.Maxretry # new.Maxretry
               THEN TRUE
               ELSE new.ReloadNeeded \/ old.ReloadNeeded
        rn2 == IF ~equalStringSlices(old.AlertCountries, new.AlertCountries)
               THEN TRUE
               ELSE rn1
    IN  [new EXCEPT !.ReloadNeeded = rn2]

\* settings.go:420-429: the merged value is assigned before saveSettings runs
\* and is what the call leaves stored, whether or not saveSettings failed
StoredAfterUpdate_Rollback(old, merged, saveErr) == IF saveErr THEN old ELSE merged

StoredAfterUpdate(old, merged, saveErr) == merged

\* MarkReloadDone (settings.go:387) and MarkReloadNeeded (settings.go:378)
ReloadDone_Keeps(s) == s

ReloadDone(s) == [s EXCEPT !.ReloadNeeded = FALSE]

ReloadNeeded(s) == [s EXCEPT !.ReloadNeeded = TRUE]

(***************************************************************************)
(* writeFail2banAction (settings.go:276-322): the fixed action text is     *)
(* written; a failed write leaves unspecified content and is returned.     *)
(***************************************************************************)
writeFail2banAction(ok) ==
    [err |-> ~ok, actionFile |-> IF ok THEN "written" ELSE "unknown"]

(***************************************************************************)
(* saveSettings (settings.go:348-364): marshal, write the settings file    *)
(* (a failure is logged only), then return writeFail2banAction's result.   *)
(***************************************************************************)
saveSettings(s, fileOk, actOk) ==
    [ err          |-> writeFail2banAction(actOk).err,
      settingsFile |-> IF fileOk THEN LoadableFile(s) ELSE UnloadableFile,
      actionFile   |-> writeFail2banAction(actOk).actionFile ]

(***************************************************************************)
(* What a returned call is remembered by                                   *)
(***************************************************************************)
Elems(l) == { l[i] : i \in 1..Len(l) }

\* op: the call; prevOp: for a get, the call that returned before it, whose
\* other fields the get keeps; new: the payload; ret: the settings the call
\* returned; got: the settings a get returned; the rest is what an update found
\* when it compared the payload with the stored settings
NoCall ==
    [ op               |-> "none",
      prevOp           |-> "none",
      err              |-> FALSE,
      new              |-> ZeroSettings,
      ret              |-> ZeroSettings,
      got              |-> ZeroSettings,
      fileWriteOk      |-> TRUE,
      actionWriteOk    |-> TRUE,
      oldReloadNeeded  |-> FALSE,
      scalarDiffers    |-> FALSE,
      sameCountrySet   |-> TRUE,
      countriesEqual   |-> TRUE,
      sameCountryList  |-> TRUE,
      bootstrapped     |-> FALSE,
      jail             |-> [readable |-> FALSE, settings |-> << >>] ]

ScalarPolicy(s) ==
    << s.BantimeIncrement, s.IgnoreIP, s.Bantime, s.Findtime, s.Maxretry, s.Destemail >>

(***************************************************************************)
(* The variables a specification does not use stay as they are here        *)
(***************************************************************************)
StoreAtRest ==
    /\ phase = "boot"
    /\ currentSettings = ZeroSettings
    /\ settingsFile = UnloadableFile
    /\ actionFile = "absent"
    /\ last = NoCall

ConcAtRest ==
    /\ settingsLock = [writer |-> "none", readers |-> {}]
    /\ pc = << >>
    /\ local = << >>
    /\ opsStarted = 0
    /\ serialSettings = ZeroSettings

AliasAtRest ==
    /\ heap = << >>
    /\ aliasStored = NotHeld
    /\ aliasSnapshot = NotHeld
    /\ aliasPayload = NotHeld
    /\ aliasExpected = << >>
    /\ aliasSnapshotSeen = [ReloadNeeded |-> FALSE, AlertCountries |-> << >>]

LogAtRest ==
    /\ logLines = << >>
    /\ logStage = "rest"
    /\ logErr = FALSE
    /\ eventsByJail = << >>
    /\ lastFive = << >>
    /\ secondFive = << >>

JailsAtRest ==
    /\ fail2banClient = << >>
    /\ hostClock = << >>
    /\ logReadOk = TRUE
    /\ jailsCall = << >>

ActionAtRest ==
    /\ renderArgs = << >>
    /\ rendered = << >>

ConfAtRest ==
    /\ confFiles = << >>
    /\ confCall = << >>

PatchAtRest ==
    /\ jailLocal = << >>
    /\ patchCall = << >>

ReloadAtRest == reloadCall = << >>

(***************************************************************************)
(* Spec: one call at a time                                                *)
(***************************************************************************)
Init ==
    /\ phase = "boot"
    /\ currentSettings = ZeroSettings
    /\ settingsFile \in { UnloadableFile } \cup { LoadableFile(s) : s \in Payloads }
    /\ actionFile = "absent"
    /\ last = NoCall
    /\ settingsLock = [writer |-> "none", readers |-> {}]
    /\ pc = << >>
    /\ local = << >>
    /\ opsStarted = 0
    /\ serialSettings = ZeroSettings
    /\ AliasAtRest
    /\ LogAtRest
    /\ JailsAtRest
    /\ ActionAtRest
    /\ ConfAtRest
    /\ PatchAtRest
    /\ ReloadAtRest

\* init() with a settings file that loads (settings.go:74, 87): loadSettings
\* assigns the decoded value, nothing is saved, the action file is written
initLoaded(actOk) ==
    /\ phase = "boot"
    /\ settingsFile.loadable
    /\ currentSettings' = Unmarshal(settingsFile.json)
    /\ actionFile' = writeFail2banAction(actOk).actionFile
    /\ phase' = "run"
    /\ last' = [NoCall EXCEPT !.op = "init", !.actionWriteOk = actOk]
    /\ UNCHANGED << settingsFile, concVars, otherVars >>

\* init() when loadSettings fails (settings.go:74-89): seed from jail.local,
\* fill the defaults, save, then initializeFail2banAction writes the action
\* file once more; every error is printed and start-up goes on
initBootstrap(jail, fileOk, actOk, actOk2) ==
    /\ phase = "boot"
    /\ ~settingsFile.loadable
    /\ LET s     == setDefaults(initializeFromJailFile(currentSettings, jail))
           saved == saveSettings(s, fileOk, actOk)
       IN  /\ currentSettings' = s
           /\ settingsFile' = saved.settingsFile
           /\ actionFile' = writeFail2banAction(actOk2).actionFile
           /\ last' = [NoCall EXCEPT !.op = "init", !.fileWriteOk = fileOk,
                                     !.actionWriteOk = actOk /\ actOk2,
                                     !.bootstrapped = TRUE, !.jail = jail]
    /\ phase' = "run"
    /\ UNCHANGED << concVars, otherVars >>

\* UpdateSettings (settings.go:392-430)
UpdateSettings(new, fileOk, actOk) ==
    /\ phase = "run"
    /\ LET old    == currentSettings
           merged == MergedSettings(old, new)
           saved  == saveSettings(merged, fileOk, actOk)
           stored == StoredAfterUpdate(old, merged, saved.err)
       IN  /\ currentSettings' = stored
           /\ settingsFile' = saved.settingsFile
           /\ actionFile' = saved.actionFile
           /\ last' = [ op               |-> "update",
                        prevOp           |-> "none",
                        err              |-> saved.err,
                        new              |-> new,
                        ret              |-> stored,
                        got              |-> ZeroSettings,
                        fileWriteOk      |-> fileOk,
                        actionWriteOk    |-> actOk,
                        oldReloadNeeded  |-> old.ReloadNeeded,
                        scalarDiffers    |-> ScalarPolicy(old) # ScalarPolicy(new),
                        sameCountrySet   |-> Elems(old.AlertCountries) = Elems(new.AlertCountries),
                        countriesEqual   |-> equalStringSlices(old.AlertCountries, new.AlertCountries),
                        sameCountryList  |-> old.AlertCountries = new.AlertCountries,
                        bootstrapped     |-> FALSE,
                        jail             |-> NoCall.jail ]
    /\ UNCHANGED << phase, concVars, otherVars >>

\* MarkReloadDone (settings.go:383-389)
MarkReloadDone(fileOk, actOk) ==
    /\ phase = "run"
    /\ LET s     == ReloadDone(currentSettings)
           saved == saveSettings(s, fileOk, actOk)
       IN  /\ currentSettings' = s
           /\ settingsFile' = saved.settingsFile
           /\ actionFile' = saved.actionFile
           /\ last' = [NoCall EXCEPT !.op = "markDone", !.err = saved.err,
                                     !.fileWriteOk = fileOk, !.actionWriteOk = actOk,
                                     !.oldReloadNeeded = currentSettings.ReloadNeeded]
    /\ UNCHANGED << phase, concVars, otherVars >>

\* MarkReloadNeeded (settings.go:374-380)
MarkReloadNeeded(fileOk, actOk) ==
    /\ phase = "run"
    /\ LET s     == ReloadNeeded(currentSettings)
           saved == saveSettings(s, fileOk, actOk)
       IN  /\ currentSettings' = s
           /\ settingsFile' = saved.settingsFile
           /\ actionFile' = saved.actionFile
           /\ last' = [NoCall EXCEPT !.op = "markNeeded", !.err = saved.err,
                                     !.fileWriteOk = fileOk, !.actionWriteOk = actOk,
                                     !.oldReloadNeeded = currentSettings.ReloadNeeded]
    /\ UNCHANGED << phase, concVars, otherVars >>

\* GetSettings (settings.go:367-371)
GetSettings ==
    /\ phase = "run"
    /\ last' = [last EXCEPT !.op = "get",
                            !.prevOp = last.op,
                            !.got = currentSettings]
    /\ UNCHANGED << phase, currentSettings, settingsFile, actionFile, concVars, otherVars >>

Next ==
    \/ \E actOk \in BOOLEAN : initLoaded(actOk)
    \/ \E jail \in JailFiles, fileOk, actOk, actOk2 \in BOOLEAN :
          initBootstrap(jail, fileOk, actOk, actOk2)
    \/ \E new \in Payloads, fileOk, actOk \in BOOLEAN : UpdateSettings(new, fileOk, actOk)
    \/ \E fileOk, actOk \in BOOLEAN : MarkReloadDone(fileOk, actOk)
    \/ \E fileOk, actOk \in BOOLEAN : MarkReloadNeeded(fileOk, actOk)
    \/ GetSettings

Spec == Init /\ [][Next]_vars

(***************************************************************************)
(* Claims on the settings store, one call at a time (Spec)                 *)
(***************************************************************************)
SameButFlag(a, b) == [a EXCEPT !.ReloadNeeded = FALSE] = [b EXCEPT !.ReloadNeeded = FALSE]

\* C1: once the stored reloadNeeded is true, it is true after every later
\* update (and after every call other than MarkReloadDone): a call that found
\* the flag set and is not MarkReloadDone leaves it set.
C1_ReloadNeededStaysSet ==
    /\ (last.op \in {"update", "markNeeded"} /\ last.oldReloadNeeded)
          => currentSettings.ReloadNeeded
    /\ (last.op = "update" /\ last.oldReloadNeeded) => last.ret.ReloadNeeded

\* an update that found the flag set, with a payload that changes no policy
\* field and carries reloadNeeded = false, has returned
C1_Witness ==
    /\ last.op = "update"
    /\ last.oldReloadNeeded
    /\ ~last.new.ReloadNeeded
    /\ ~last.scalarDiffers
    /\ last.sameCountryList
    /\ currentSettings.ReloadNeeded

\* C2: an update whose payload differs from the stored settings in a
\* policy-affecting field (a scalar policy field, or the set of alert
\* countries) stores and returns reloadNeeded = true.
C2_PolicyChangeForcesReload ==
    (last.op = "update" /\ (last.scalarDiffers \/ ~last.sameCountrySet))
        => (currentSettings.ReloadNeeded /\ last.ret.ReloadNeeded)

\* C3: an update whose payload differs from the stored settings in no
\* policy-affecting field leaves the stored reloadNeeded as it was.
C3_SamePolicyKeepsFlag ==
    (last.op = "update" /\ ~last.scalarDiffers /\ last.sameCountrySet)
        => currentSettings.ReloadNeeded = last.oldReloadNeeded

\* C4: update's country comparison is set equality: it finds the countries
\* unchanged exactly when the stored and the new list hold the same set of codes.
C4_CountryComparisonIsSetEquality ==
    last.op = "update" => (last.countriesEqual <=> last.sameCountrySet)

\* C5: after start-up alertCountries is never empty, and an update given an
\* empty list stores the all-match sentinel.
C5_AlertCountriesNeverEmpty ==
    phase = "run" =>
        /\ currentSettings.AlertCountries # << >>
        /\ (last.op = "update" /\ last.new.AlertCountries = << >>)
              => currentSettings.AlertCountries = << "ALL" >>

\* C6: after MarkReloadDone has returned, with or without an error, the stored
\* reloadNeeded is false and a GetSettings that follows it returns
\* reloadNeeded = false.
C6_ReloadDoneClears ==
    /\ last.op = "markDone" => ~currentSettings.ReloadNeeded
    /\ (last.op = "get" /\ last.prevOp = "markDone") => ~last.got.ReloadNeeded

\* MarkReloadDone found the flag set and returned an error, then GetSettings ran
C6_Witness ==
    /\ last.op = "get"
    /\ last.prevOp = "markDone"
    /\ last.oldReloadNeeded
    /\ last.err
    /\ ~last.got.ReloadNeeded

\* C7: an update or MarkReloadDone one of whose two file writes failed returns
\* an error.
C7_WriteFailureIsReturned ==
    (last.op \in {"update", "markDone"} /\ (~last.fileWriteOk \/ ~last.actionWriteOk))
        => last.err

\* C8: when an update returns an error, the stored settings are the merged new
\* settings (the payload, with reloadNeeded recomputed), they equal the value
\* the update returned, and a GetSettings that follows returns them.
C8_FailedUpdateIsNotRolledBack ==
    /\ (last.op = "update" /\ last.err)
          => (currentSettings = last.ret /\ SameButFlag(last.ret, last.new))
    /\ (last.op = "get" /\ last.prevOp = "update" /\ last.err)
          => (last.got = last.ret /\ SameButFlag(last.got, last.new))

\* an update that changed a policy field returned an error, then GetSettings ran
C8_Witness ==
    /\ last.op = "get"
    /\ last.prevOp = "update"
    /\ last.err
    /\ last.scalarDiffers
    /\ last.got = last.ret


(***************************************************************************)
(* SpecConc: request goroutines calling UpdateSettings, MarkReloadDone,    *)
(* GetSettings and DebugLog (from GetAllJails) at the same time.  Each     *)
(* call is taken apart into its lock operation, its reads and writes of    *)
(* currentSettings, its save and its unlock.  The struct assignment and    *)
(* the struct copy move more than one word, so each is two steps: first    *)
(* the fields down to AlertCountries, then the fields below them.          *)
(***************************************************************************)
Procs == {"r1", "r2", "r3"}

ZeroLocal ==
    [ new |-> ZeroSettings, snap |-> ZeroSettings, expect |-> ZeroSettings,
      debugEnabled |-> FALSE ]

\* payloads of the concurrent requests: both change fields of both halves
ConcPayloads ==
    { [DefaultSettings EXCEPT !.Debug = TRUE, !.AlertCountries = << "CH" >>,
                              !.Bantime = "1h"],
      [DefaultSettings EXCEPT !.AlertCountries = << "DE" >>, !.Findtime = "10m",
                              !.ReloadNeeded = TRUE] }

\* settings start-up leaves behind when no write fails: the bootstrap
\* defaults, or a value loaded from the settings file
ConcStartSettings ==
    { DefaultSettings,
      [DefaultSettings EXCEPT !.ReloadNeeded = TRUE,
                              !.AlertCountries = << "CH", "DE" >>] }

\* the first and the second half of an AppSettings assignment or copy
FirstHalf(dst, src) ==
    [dst EXCEPT !.Debug = src.Debug, !.ReloadNeeded = src.ReloadNeeded,
                !.AlertCountries = src.AlertCountries]

SecondHalf(dst, src) ==
    [dst EXCEPT !.BantimeIncrement = src.BantimeIncrement, !.IgnoreIP = src.IgnoreIP,
                !.Bantime = src.Bantime, !.Findtime = src.Findtime,
                !.Maxretry = src.Maxretry, !.Destemail = src.Destemail]

\* settingsLock.RLock() returns at once
RLockFree_Always == TRUE

\* settingsLock.Lock() goes through when no one holds the lock,
\* settingsLock.RLock() when no writer holds it
LockFree == settingsLock.writer = "none" /\ settingsLock.readers = {}

RLockFree == settingsLock.writer = "none"

InitConc ==
    /\ phase = "run"
    /\ currentSettings \in ConcStartSettings
    /\ settingsFile = LoadableFile(currentSettings)
    /\ actionFile = "written"
    /\ last = NoCall
    /\ settingsLock = [writer |-> "none", readers |-> {}]
    /\ pc = [p \in Procs |-> "idle"]
    /\ local = [p \in Procs |-> ZeroLocal]
    /\ opsStarted = 0
    /\ serialSettings = currentSettings
    /\ AliasAtRest
    /\ LogAtRest
    /\ JailsAtRest
    /\ ActionAtRest
    /\ ConfAtRest
    /\ PatchAtRest
    /\ ReloadAtRest

CanStart(p) == pc[p] = "idle" /\ opsStarted < MaxOps

\* UpdateSettings, settings.go:393: the write lock is taken
UpdLock(p, new) ==
    /\ CanStart(p)
    /\ LockFree
    /\ settingsLock' = [settingsLock EXCEPT !.writer = p]
    /\ pc' = [pc EXCEPT ![p] = "UpdMerge"]
    /\ local' = [local EXCEPT ![p] = [ZeroLocal EXCEPT !.new = new]]
    /\ opsStarted' = opsStarted + 1
    /\ serialSettings' = MergedSettings(serialSettings, new)
    /\ UNCHANGED << otherVars, phase, currentSettings, settingsFile, actionFile, last >>

\* settings.go:398-418: old := currentSettings, new.ReloadNeeded recomputed
UpdMerge(p) ==
    /\ pc[p] = "UpdMerge"
    /\ local' = [local EXCEPT ![p].new = MergedSettings(currentSettings, local[p].new)]
    /\ pc' = [pc EXCEPT ![p] = "UpdStore1"]
    /\ UNCHANGED << otherVars, phase, currentSettings, settingsFile, actionFile, last,
                    settingsLock, opsStarted, serialSettings >>

\* settings.go:420, currentSettings = new: the first half of the fields
UpdStore1(p) ==
    /\ pc[p] = "UpdStore1"
    /\ currentSettings' = FirstHalf(currentSettings, local[p].new)
    /\ pc' = [pc EXCEPT ![p] = "UpdStore2"]
    /\ UNCHANGED << otherVars, phase, settingsFile, actionFile, last,
                    settingsLock, local, opsStarted, serialSettings >>

\* settings.go:420, currentSettings = new: the second half of the fields
UpdStore2(p) ==
    /\ pc[p] = "UpdStore2"
    /\ currentSettings' = SecondHalf(currentSettings, local[p].new)
    /\ pc' = [pc EXCEPT ![p] = "UpdSave"]
    /\ UNCHANGED << otherVars, phase, settingsFile, actionFile, last,
                    settingsLock, local, opsStarted, serialSettings >>

\* settings.go:424, saveSettings()
UpdSave(p) ==
    /\ pc[p] = "UpdSave"
    /\ settingsFile' = saveSettings(currentSettings, TRUE, TRUE).settingsFile
    /\ actionFile' = saveSettings(currentSettings, TRUE, TRUE).actionFile
    /\ pc' = [pc EXCEPT ![p] = "UpdUnlock"]
    /\ UNCHANGED << otherVars, phase, currentSettings, last,
                    settingsLock, local, opsStarted, serialSettings >>

\* settings.go:394, 429: return currentSettings and the deferred Unlock
UpdUnlock(p) ==
    /\ pc[p] = "UpdUnlock"
    /\ settingsLock' = [settingsLock EXCEPT !.writer = "none"]
    /\ pc' = [pc EXCEPT ![p] = "idle"]
    /\ local' = [local EXCEPT ![p] = ZeroLocal]
    /\ UNCHANGED << otherVars, phase, currentSettings, settingsFile, actionFile, last,
                    opsStarted, serialSettings >>

\* MarkReloadDone, settings.go:384: the write lock is taken
DoneLock(p) ==
    /\ CanStart(p)
    /\ LockFree
    /\ settingsLock' = [settingsLock EXCEPT !.writer = p]
    /\ pc' = [pc EXCEPT ![p] = "DoneStore"]
    /\ opsStarted' = opsStarted + 1
    /\ serialSettings' = ReloadDone(serialSettings)
    /\ UNCHANGED << otherVars, phase, currentSettings, settingsFile, actionFile, last, local >>

\* settings.go:387, currentSettings.ReloadNeeded = false
DoneStore(p) ==
    /\ pc[p] = "DoneStore"
    /\ currentSettings' = ReloadDone(currentSettings)
    /\ pc' = [pc EXCEPT ![p] = "DoneSave"]
    /\ UNCHANGED << otherVars, phase, settingsFile, actionFile, last,
                    settingsLock, local, opsStarted, serialSettings >>

\* settings.go:388, saveSettings()
DoneSave(p) ==
    /\ pc[p] = "DoneSave"
    /\ settingsFile' = saveSettings(currentSettings, TRUE, TRUE).settingsFile
    /\ actionFile' = saveSettings(currentSettings, TRUE, TRUE).actionFile
    /\ pc' = [pc EXCEPT ![p] = "DoneUnlock"]
    /\ UNCHANGED << otherVars, phase, currentSettings, last,
                    settingsLock, local, opsStarted, serialSettings >>

\* settings.go:385, the deferred Unlock
DoneUnlock(p) ==
    /\ pc[p] = "DoneUnlock"
    /\ settingsLock' = [settingsLock EXCEPT !.writer = "none"]
    /\ pc' = [pc EXCEPT ![p] = "idle"]
    /\ UNCHANGED << otherVars, phase, currentSettings, settingsFile, actionFile, last,
                    local, opsStarted, serialSettings >>

\* GetSettings, settings.go:368: the read lock is taken
GetRLock(p) ==
    /\ CanStart(p)
    /\ RLockFree
    /\ settingsLock' = [settingsLock EXCEPT !.readers = @ \cup {p}]
    /\ pc' = [pc EXCEPT ![p] = "GetCopy1"]
    /\ local' = [local EXCEPT ![p] = [ZeroLocal EXCEPT !.expect = serialSettings]]
    /\ opsStarted' = opsStarted + 1
    /\ UNCHANGED << otherVars, phase, currentSettings, settingsFile, actionFile, last,
                    serialSettings >>

\* settings.go:370, return currentSettings: the first half of the copy
GetCopy1(p) ==
    /\ pc[p] = "GetCopy1"
    /\ local' = [local EXCEPT ![p].snap = FirstHalf(@, currentSettings)]
    /\ pc' = [pc EXCEPT ![p] = "GetCopy2"]
    /\ UNCHANGED << otherVars, phase, currentSettings, settingsFile, actionFile, last,
                    settingsLock, opsStarted, serialSettings >>

\* settings.go:370, return currentSettings: the second half of the copy
GetCopy2(p) ==
    /\ pc[p] = "GetCopy2"
    /\ local' = [local EXCEPT ![p].snap = SecondHalf(@, currentSettings)]
    /\ pc' = [pc EXCEPT ![p] = "GetRUnlock"]
    /\ UNCHANGED << otherVars, phase, currentSettings, settingsFile, actionFile, last,
                    settingsLock, opsStarted, serialSettings >>

\* settings.go:369, the deferred RUnlock; the caller has the copy
GetRUnlock(p) ==
    /\ pc[p] = "GetRUnlock"
    /\ settingsLock' = [settingsLock EXCEPT !.readers = @ \ {p}]
    /\ pc' = [pc EXCEPT ![p] = "idle"]
    /\ local' = [local EXCEPT ![p] = ZeroLocal]
    /\ UNCHANGED << otherVars, phase, currentSettings, settingsFile, actionFile, last,
                    opsStarted, serialSettings >>

\* GetAllJails calls config.DebugLog
DebugLogCall(p) ==
    /\ CanStart(p)
    /\ pc' = [pc EXCEPT ![p] = "DebugLog"]
    /\ local' = [local EXCEPT ![p] = ZeroLocal]
    /\ opsStarted' = opsStarted + 1
    /\ UNCHANGED << otherVars, phase, currentSettings, settingsFile, actionFile, last,
                    settingsLock, serialSettings >>

\* DebugLog: debugEnabled = currentSettings.Debug, no lock taken
DebugLogRead(p) ==
    /\ pc[p] = "DebugLog"
    /\ local' = [local EXCEPT ![p].debugEnabled = currentSettings.Debug]
    /\ pc' = [pc EXCEPT ![p] = "idle"]
    /\ UNCHANGED << otherVars, phase, currentSettings, settingsFile, actionFile, last,
                    settingsLock, opsStarted, serialSettings >>

NextConc ==
    \E p \in Procs :
        \/ \E new \in ConcPayloads : UpdLock(p, new)
        \/ UpdMerge(p)
        \/ UpdStore1(p)
        \/ UpdStore2(p)
        \/ UpdSave(p)
        \/ UpdUnlock(p)
        \/ DoneLock(p)
        \/ DoneStore(p)
        \/ DoneSave(p)
        \/ DoneUnlock(p)
        \/ GetRLock(p)
        \/ GetCopy1(p)
        \/ GetCopy2(p)
        \/ GetRUnlock(p)
        \/ DebugLogCall(p)
        \/ DebugLogRead(p)

SpecConc == InitConc /\ [][NextConc]_vars

(***************************************************************************)
(* Claims on the concurrent calls (SpecConc)                               *)
(***************************************************************************)
FirstHalfFields == {"Debug", "ReloadNeeded", "AlertCountries"}

SecondHalfFields ==
    {"BantimeIncrement", "IgnoreIP", "Bantime", "Findtime", "Maxretry", "Destemail"}

\* the fields of currentSettings that a goroutine standing at at is about to read
ReadsAt(at) ==
    CASE at \in {"UpdMerge", "UpdSave", "DoneSave"} -> FirstHalfFields \cup SecondHalfFields
      [] at = "GetCopy1" -> FirstHalfFields
      [] at = "GetCopy2" -> SecondHalfFields
      [] at = "DebugLog" -> {"Debug"}
      [] OTHER -> {}

\* the fields of currentSettings that a goroutine standing at at is about to write
WritesAt(at) ==
    CASE at = "UpdStore1" -> FirstHalfFields
      [] at = "UpdStore2" -> SecondHalfFields
      [] at = "DoneStore" -> {"ReloadNeeded"}
      [] OTHER -> {}

\* C9: with no file write failing, every GetSettings returns the whole value
\* that the calls before it, run one after another in the order they took the
\* lock, have produced; and whenever no writer holds the lock the in-memory
\* settings are that serial result and the settings file decodes to them.
C9_CallsAreSerialized ==
    /\ \A p \in Procs :
          pc[p] = "GetRUnlock" => local[p].snap = local[p].expect
    /\ settingsLock.writer = "none" =>
          /\ currentSettings = serialSettings
          /\ settingsFile.loadable
          /\ Unmarshal(settingsFile.json) = currentSettings

\* a GetSettings is returning the result of an update that ran after another
\* mutation, while a third call is under way
C9_Witness ==
    \E p \in Procs :
        /\ pc[p] = "GetRUnlock"
        /\ opsStarted = MaxOps
        /\ local[p].snap.Bantime = "1h"
        /\ local[p].snap \notin ConcPayloads
        /\ \E q \in Procs \ {p} : pc[q] # "idle"

\* C10: every read and write of currentSettings is made under settingsLock, so
\* no goroutine is about to read a field of currentSettings (the debug flag
\* read by DebugLog included) while another goroutine is about to write it.
C10_NoReadDuringWrite ==
    \A p, q \in Procs :
        p # q => ReadsAt(pc[p]) \cap WritesAt(pc[q]) = {}

(***************************************************************************)
(* C12                                                                     *)
(***************************************************************************)
\* C12: max_retries is non-negative in every state of the settings store,
\* whatever the maxretry key of the default-section file, the settings file
\* or the payload of an update holds
C12_MaxRetriesNonNegative == currentSettings.Maxretry >= 0

(***************************************************************************)
(* SpecAlias: what the settings store shares with its callers.  A []string *)
(* is a header over a backing array; assigning or returning an AppSettings *)
(* copies the header and not the array (settings.go:367-371, 392-430).     *)
(***************************************************************************)
MaxArrays == 3

SliceValue(h, hdr) == [i \in 1..hdr.len |-> h[hdr.arr][i]]

\* the AppSettings the comparison of UpdateSettings sees, with the fields
\* this specification leaves alone at their defaults
AsSettings(h, s) ==
    [DefaultSettings EXCEPT !.ReloadNeeded = s.ReloadNeeded,
                            !.AlertCountries = SliceValue(h, s.AlertCountries)]

\* the state after init(): the defaults, "ALL" in an array of its own
InitAlias ==
    /\ StoreAtRest
    /\ ConcAtRest
    /\ heap = << << "ALL" >> >>
    /\ aliasStored = [held |-> TRUE, ReloadNeeded |-> FALSE,
                      AlertCountries |-> [arr |-> 1, len |-> 1]]
    /\ aliasSnapshot = NotHeld
    /\ aliasPayload = NotHeld
    /\ aliasExpected = << "ALL" >>
    /\ aliasSnapshotSeen = [ReloadNeeded |-> FALSE, AlertCountries |-> << >>]
    /\ LogAtRest
    /\ JailsAtRest
    /\ ActionAtRest
    /\ ConfAtRest
    /\ PatchAtRest
    /\ ReloadAtRest

\* UpdateSettings(new) (settings.go:392-430): the caller built new with a list
\* of its own; currentSettings = new copies the header
AliasUpdateSettings(codes, flag) ==
    /\ Len(heap) < MaxArrays
    /\ LET h2     == Append(heap, codes)
           new    == [held |-> TRUE, ReloadNeeded |-> flag,
                      AlertCountries |-> [arr |-> Len(h2), len |-> Len(codes)]]
           merged == MergedSettings(AsSettings(h2, aliasStored), AsSettings(h2, new))
       IN  /\ heap' = h2
           /\ aliasPayload' = new
           /\ aliasStored' = [new EXCEPT !.ReloadNeeded = merged.ReloadNeeded]
           /\ aliasExpected' = codes
    /\ UNCHANGED << aliasSnapshot, aliasSnapshotSeen, storeVars, concVars, patchVars, reloadVars, logVars, jailsVars, actionVars, confVars >>

\* MarkReloadDone (settings.go:384-390)
AliasMarkReloadDone ==
    /\ aliasStored.ReloadNeeded
    /\ aliasStored' = [aliasStored EXCEPT !.ReloadNeeded = FALSE]
    /\ UNCHANGED << heap, aliasSnapshot, aliasPayload, aliasExpected,
                    aliasSnapshotSeen, storeVars, concVars, patchVars, reloadVars, logVars, jailsVars, actionVars, confVars >>

\* GetSettings (settings.go:367-371): return currentSettings
AliasGetSettings ==
    /\ aliasSnapshot' = aliasStored
    /\ aliasSnapshotSeen' = [ReloadNeeded |-> aliasStored.ReloadNeeded,
                             AlertCountries |-> SliceValue(heap, aliasStored.AlertCountries)]
    /\ UNCHANGED << heap, aliasStored, aliasPayload, aliasExpected, storeVars, concVars, patchVars, reloadVars, logVars, jailsVars, actionVars, confVars >>

\* the heap after the holder of a value assigns an element of its
\* AlertCountries
WriteElement(h, hdr, i, c) == [h EXCEPT ![hdr.arr][i] = c]

\* the caller of GetSettings assigns an element of the snapshot's list
AliasModifySnapshot(i, c) ==
    /\ aliasSnapshot.held
    /\ i \in 1..aliasSnapshot.AlertCountries.len
    /\ heap[aliasSnapshot.AlertCountries.arr][i] # c
    /\ heap' = WriteElement(heap, aliasSnapshot.AlertCountries, i, c)
    /\ aliasSnapshotSeen' =
         [aliasSnapshotSeen EXCEPT
            !.AlertCountries = SliceValue(heap', aliasSnapshot.AlertCountries)]
    /\ UNCHANGED << aliasStored, aliasSnapshot, aliasPayload, aliasExpected,
                    storeVars, concVars, patchVars, reloadVars, logVars, jailsVars, actionVars, confVars >>

\* the caller of UpdateSettings assigns an element of the list it passed
AliasModifyPayload(i, c) ==
    /\ aliasPayload.held
    /\ i \in 1..aliasPayload.AlertCountries.len
    /\ heap[aliasPayload.AlertCountries.arr][i] # c
    /\ heap' = WriteElement(heap, aliasPayload.AlertCountries, i, c)
    /\ aliasSnapshotSeen' =
         [aliasSnapshotSeen EXCEPT
            !.AlertCountries = SliceValue(heap', aliasSnapshot.AlertCountries)]
    /\ UNCHANGED << aliasStored, aliasSnapshot, aliasPayload, aliasExpected,
                    storeVars, concVars, patchVars, reloadVars, logVars, jailsVars, actionVars, confVars >>

NextAlias ==
    \/ \E codes \in CountryLists, flag \in BOOLEAN : AliasUpdateSettings(codes, flag)
    \/ AliasMarkReloadDone
    \/ AliasGetSettings
    \/ \E i \in 1..MaxCountries, c \in {"CH", "DE"} : AliasModifySnapshot(i, c)
    \/ \E i \in 1..MaxCountries, c \in {"CH", "DE"} : AliasModifyPayload(i, c)

SpecAlias == InitAlias /\ [][NextAlias]_vars

\* C11: the store shares no mutable state with its callers: a snapshot stays
\* as GetSettings returned it and its holder changed it, and GetSettings
\* returns the alertCountries the last update was given, whatever the callers
\* have done since to the values they hold
C11_NoSharedMutableState ==
    /\ aliasSnapshot.held =>
         /\ aliasSnapshot.ReloadNeeded = aliasSnapshotSeen.ReloadNeeded
         /\ SliceValue(heap, aliasSnapshot.AlertCountries) = aliasSnapshotSeen.AlertCountries
    /\ SliceValue(heap, aliasStored.AlertCountries) = aliasExpected

(***************************************************************************)
(* SpecLog: the ban log (logparse.go).  A line is its fields as fail2ban   *)
(* writes them: the words before the logger name, the logger, the process  *)
(* id, the level, the bracketed jail, the words of the message before the  *)
(* address, and the address.                                               *)
(***************************************************************************)
MaxLogLen == 3
BurstLen == 6

Jails == { "sshd", "nginx-401" }

LogLine(stamp, logger, level, jail, verb, ip) ==
    [ stamp |-> stamp, logger |-> logger, pid |-> "[111]:", level |-> level,
      jail |-> jail, verb |-> verb, ip |-> ip ]

\* bans of two jails, two of them in the same millisecond
BanLines ==
    { LogLine(<< "2023-01-20", "10:15:30,123" >>, "fail2ban.actions", "NOTICE",
              "sshd", << "Ban" >>, "10.0.0.5"),
      LogLine(<< "2023-01-20", "10:15:31,000" >>, "fail2ban.actions", "NOTICE",
              "sshd", << "Ban" >>, "10.0.0.6"),
      LogLine(<< "2023-01-20", "10:15:31,000" >>, "fail2ban.actions", "NOTICE",
              "nginx-401", << "Ban" >>, "10.0.0.5"),
      LogLine(<< "2023-01-20", "10:16:00,456" >>, "fail2ban.actions", "NOTICE",
              "nginx-401", << "Ban" >>, "10.0.0.7") }

\* an unban, a restored ban, a ban whose time of day does not exist, a ban
\* under a syslog date, and a line of another logger
OtherLines ==
    { LogLine(<< "2023-01-20", "10:15:40,000" >>, "fail2ban.actions", "NOTICE",
              "sshd", << "Unban" >>, "10.0.0.5"),
      LogLine(<< "2023-01-20", "10:15:41,000" >>, "fail2ban.actions", "NOTICE",
              "sshd", << "Restore", "Ban" >>, "10.0.0.5"),
      LogLine(<< "2023-01-20", "25:61:00,000" >>, "fail2ban.actions", "NOTICE",
              "sshd", << "Ban" >>, "10.0.0.8"),
      LogLine(<< "Jan", "20", "10:15:30" >>, "fail2ban.actions", "NOTICE",
              "sshd", << "Ban" >>, "10.0.0.9"),
      LogLine(<< "2023-01-20", "10:15:29,000" >>, "fail2ban.filter", "INFO",
              "sshd", << "Found" >>, "10.0.0.5") }

LogLines == BanLines \cup OtherLines

\* logRegex.FindStringSubmatch (logparse.go:15, 40): the whole match and the
\* three groups, or nothing.  ^(\S+\s+\S+) takes two words, one blank and the
\* logger name follow; [pid]: NOTICE, the bracketed jail, then Ban and a word
FindStringSubmatch(line) ==
    IF /\ Len(line.stamp) = 2
       /\ line.logger = "fail2ban.actions"
       /\ line.pid = "[111]:"
       /\ line.level = "NOTICE"
       /\ line.verb = << "Ban" >>
    THEN << line, line.stamp, line.jail, line.ip >>
    ELSE << >>

\* time.Parse("2006-01-02 15:04:05,000", s) (logparse.go:50): the words read
\* as a time of day in UTC, as the instant in milliseconds after 2023-01-20
\* 00:00:00 UTC, or an error
timeParse(s) ==
    CASE s = << "2023-01-20", "10:15:30,123" >> -> [err |-> FALSE, t |-> 36930123]
      [] s = << "2023-01-20", "10:15:31,000" >> -> [err |-> FALSE, t |-> 36931000]
      [] s = << "2023-01-20", "10:16:00,456" >> -> [err |-> FALSE, t |-> 36960456]
      [] s = << "2023-01-20", "10:15:40,000" >> -> [err |-> FALSE, t |-> 36940000]
      [] s = << "2023-01-20", "10:15:41,000" >> -> [err |-> FALSE, t |-> 36941000]
      [] s = << "2023-01-20", "10:15:29,000" >> -> [err |-> FALSE, t |-> 36929000]
      [] s = << "2023-01-20", "09:00:00,000" >> -> [err |-> FALSE, t |-> 32400000]
      [] s = << "2023-01-20", "10:00:00,000" >> -> [err |-> FALSE, t |-> 36000000]
      [] s = << "2023-01-20", "11:00:00,000" >> -> [err |-> FALSE, t |-> 39600000]
      [] OTHER -> [err |-> TRUE, t |-> 0]

NoEvents == [j \in Jails |-> << >>]

\* the loop body of ParseBanLog with a line whose time does not parse kept,
\* at the zero time
AddLine_KeepsBadTime(events, line) ==
    LET matches == FindStringSubmatch(line)
    IN  IF Len(matches) = 4
        THEN LET parsed == timeParse(matches[2])
                 ev == [Time |-> parsed.t, Jail |-> matches[3],
                        IP |-> matches[4], LogLine |-> line]
             IN  [events EXCEPT ![matches[3]] = Append(@, ev)]
        ELSE events

\* the loop body of ParseBanLog (logparse.go:38-64)
AddLine(events, line) ==
    LET matches == FindStringSubmatch(line)
    IN  IF Len(matches) = 4
        THEN LET parsed == timeParse(matches[2])
                 ev == [Time |-> parsed.t, Jail |-> matches[3],
                        IP |-> matches[4], LogLine |-> line]
             IN  IF parsed.err THEN events
                 ELSE [events EXCEPT ![matches[3]] = Append(@, ev)]
        ELSE events

RECURSIVE ScanLines(_, _)
ScanLines(events, lines) ==
    IF lines = << >> THEN events
    ELSE ScanLines(AddLine(events, Head(lines)), Tail(lines))

\* ParseBanLog (logparse.go:27-71): readOk is false when the file does not
\* open or the scanner ends with an error
ParseBanLog(lines, readOk) ==
    IF readOk THEN [err |-> FALSE, eventsByJail |-> ScanLines(NoEvents, lines)]
    ELSE [err |-> TRUE, eventsByJail |-> NoEvents]

\* time.Time.After (logparse.go:94) with the comparison turned round
After_Before(a, b) == a < b

\* time.Time.After (logparse.go:94, client.go:282)
After(a, b) == a > b

\* the exchange with the event at i lost: both places hold the event of j
Swap_Overwrites(events, i, j) == [events EXCEPT ![i] = events[j]]

\* events[i], events[j] = events[j], events[i] (logparse.go:95)
Swap(events, i, j) == [events EXCEPT ![i] = events[j], ![j] = events[i]]

\* sortByTimeDesc (logparse.go:91-99): for each i, every later j whose time is
\* after events[i]'s is exchanged with it
RECURSIVE SortInner(_, _, _)
SortInner(events, i, j) ==
    IF j > Len(events) THEN events
    ELSE SortInner(IF After(events[j].Time, events[i].Time)
                   THEN Swap(events, i, j) ELSE events,
                   i, j + 1)

RECURSIVE SortOuter(_, _)
SortOuter(events, i) ==
    IF i > Len(events) THEN events
    ELSE SortOuter(SortInner(events, i, i + 1), i + 1)

sortByTimeDesc(events) == SortOuter(events, 1)

\* the orders in which ranging over the map can visit the jails
JailOrders == { o \in [1..Cardinality(Jails) -> Jails] : \A j \in Jails : \E k \in DOMAIN o : o[k] = j }

RECURSIVE MergeAll(_, _)
MergeAll(events, order) ==
    IF order = << >> THEN << >>
    ELSE events[Head(order)] \o MergeAll(events, Tail(order))

\* how many events GetLastFiveBans keeps (logparse.go:84-86)
LastFive == 5

\* GetLastFiveBans (logparse.go:74-88), SummaryHandler (handlers.go:55-71):
\* the lists of all jails appended in the order the map gives them, sorted,
\* cut to five
GetLastFiveBans(events, order) ==
    LET all == sortByTimeDesc(MergeAll(events, order))
    IN  IF Len(all) > LastFive THEN SubSeq(all, 1, LastFive) ELSE all

\* log files: every log up to MaxLogLen lines, and bursts of BurstLen bans
LogFiles == SeqsUpTo(LogLines, MaxLogLen) \cup [1..BurstLen -> BanLines \ {CHOOSE l \in BanLines : l.ip = "10.0.0.7"}]

InitLog ==
    /\ StoreAtRest
    /\ ConcAtRest
    /\ AliasAtRest
    /\ logLines \in LogFiles
    /\ logStage = "start"
    /\ logErr = FALSE
    /\ eventsByJail = NoEvents
    /\ lastFive = << >>
    /\ secondFive = << >>
    /\ JailsAtRest
    /\ ActionAtRest
    /\ ConfAtRest
    /\ PatchAtRest
    /\ ReloadAtRest

\* a call of ParseBanLog
ParseBanLogCall(readOk) ==
    /\ logStage = "start"
    /\ logStage' = "parsed"
    /\ logErr' = ParseBanLog(logLines, readOk).err
    /\ eventsByJail' = ParseBanLog(logLines, readOk).eventsByJail
    /\ UNCHANGED << logLines, lastFive, secondFive, storeVars, concVars, patchVars, reloadVars, aliasVars, jailsVars, actionVars, confVars >>

\* a call of GetLastFiveBans with what ParseBanLog returned; SummaryHandler
\* passes an empty map when ParseBanLog failed (handlers.go:55-59)
GetLastFiveBansCall(order) ==
    /\ logStage = "parsed"
    /\ logStage' = "listed"
    /\ lastFive' = GetLastFiveBans(eventsByJail, order)
    /\ UNCHANGED << logLines, logErr, eventsByJail, secondFive, storeVars, concVars, patchVars, reloadVars, aliasVars, jailsVars, actionVars, confVars >>

\* a second call of GetLastFiveBans with the same parse result: ranging over
\* the map may visit the jails in another order than the first call did
GetLastFiveBansAgain(order) ==
    /\ logStage = "listed"
    /\ logStage' = "listedTwice"
    /\ secondFive' = GetLastFiveBans(eventsByJail, order)
    /\ UNCHANGED << logLines, logErr, eventsByJail, lastFive, storeVars, concVars, patchVars, reloadVars, aliasVars, jailsVars, actionVars, confVars >>

NextLog ==
    \/ \E readOk \in BOOLEAN : ParseBanLogCall(readOk)
    \/ \E order \in JailOrders : GetLastFiveBansCall(order)
    \/ \E order \in JailOrders : GetLastFiveBansAgain(order)

SpecLog == InitLog /\ [][NextLog]_vars

IsBanLine(line) ==
    Len(FindStringSubmatch(line)) = 4 /\ ~timeParse(FindStringSubmatch(line)[2]).err

\* the lines of the log that are bans of jail j with a time that parses
BanLinesOf(j) ==
    { i \in 1..Len(logLines) :
        IsBanLine(logLines[i]) /\ FindStringSubmatch(logLines[i])[3] = j }

\* C13: when ParseBanLog has read the file to its end, the list of each jail
\* holds, in the order of the lines, one event for each line that matches the
\* pattern with that jail and a time that parses: the parsed instant, the
\* captured jail and address; no other line, and no Unban line, is in a list
C13_ParseBanLogCorrect ==
    (logStage # "start" /\ ~logErr) =>
        \A j \in Jails :
            /\ Len(eventsByJail[j]) = Cardinality(BanLinesOf(j))
            /\ \A i \in BanLinesOf(j) :
                 LET k == Cardinality({ i2 \in BanLinesOf(j) : i2 <= i })
                 IN  eventsByJail[j][k] =
                       [ Time    |-> timeParse(logLines[i].stamp).t,
                         Jail    |-> j,
                         IP      |-> logLines[i].ip,
                         LogLine |-> logLines[i] ]
            /\ \A k \in 1..Len(eventsByJail[j]) :
                 eventsByJail[j][k].LogLine.verb = << "Ban" >>

\* a log with an Unban line and a line whose time does not parse between two
\* bans of one jail has been parsed
C13_Witness ==
    /\ logStage = "parsed" /\ ~logErr
    /\ \E i \in 1..Len(logLines) : ~IsBanLine(logLines[i])
    /\ \E j \in Jails : Len(eventsByJail[j]) = 2
                        /\ eventsByJail[j][1].Time < eventsByJail[j][2].Time

TotalEvents == Len(MergeAll(eventsByJail, CHOOSE o \in JailOrders : TRUE))

\* C14 as stated: at most five events, at most as many as there are, each
\* with a timestamp strictly greater than the next one's
C14_StrictlyDescending ==
    logStage = "listed" =>
        /\ Len(lastFive) <= LastFive
        /\ Len(lastFive) <= TotalEvents
        /\ \A k \in 1..(Len(lastFive) - 1) : lastFive[k].Time > lastFive[k + 1].Time

\* C14, amended: at most five events, at most as many as there are, none
\* with a timestamp smaller than the next one's
C14_DescendingAtMostFive ==
    logStage = "listed" =>
        /\ Len(lastFive) <= LastFive
        /\ Len(lastFive) <= TotalEvents
        /\ \A k \in 1..(Len(lastFive) - 1) : lastFive[k].Time >= lastFive[k + 1].Time

\* more than five events were there, five were returned, among them two of
\* the same millisecond and two of different ones
C14_Witness ==
    /\ logStage = "listed"
    /\ TotalEvents > LastFive
    /\ Len(lastFive) = LastFive
    /\ \E k \in 1..(Len(lastFive) - 1) : lastFive[k].Time = lastFive[k + 1].Time
    /\ \E k \in 1..(Len(lastFive) - 1) : lastFive[k].Time > lastFive[k + 1].Time

(***************************************************************************)
(* SpecJails: the jails as fail2ban-client reports them (client.go).  A    *)
(* text is the sequence of its separators (":", ",", blank, tab) and of    *)
(* the words between them; a word holds no separator.                      *)
(***************************************************************************)
MaxJails == 2
MaxHourLog == 2

IsSpace(c) == c \in { " ", "\t" }

\* strings.Contains(s, marker)
Contains(s, marker) ==
    \E i \in 1..Len(s) :
        /\ i + Len(marker) - 1 <= Len(s)
        /\ SubSeq(s, i, i + Len(marker) - 1) = marker

\* strings.Split(s, sep) for a one-character sep
RECURSIVE Split(_, _)
Split(s, sep) ==
    IF \A i \in 1..Len(s) : s[i] # sep THEN << s >>
    ELSE LET i == CHOOSE k \in 1..Len(s) :
                    s[k] = sep /\ \A m \in 1..(k - 1) : s[m] # sep
         IN  << SubSeq(s, 1, i - 1) >> \o Split(SubSeq(s, i + 1, Len(s)), sep)

\* strings.TrimSpace(s)
RECURSIVE TrimSpace(_)
TrimSpace(s) ==
    IF s = << >> THEN s
    ELSE IF IsSpace(s[1]) THEN TrimSpace(Tail(s))
    ELSE IF IsSpace(s[Len(s)]) THEN TrimSpace(SubSeq(s, 1, Len(s) - 1))
    ELSE s

\* strings.Fields(s)
RECURSIVE Fields(_)
Fields(s) ==
    IF s = << >> THEN << >>
    ELSE IF IsSpace(s[1]) THEN Fields(Tail(s))
    ELSE LET ends == { k \in 1..Len(s) : IsSpace(s[k]) }
             n == IF ends = {} THEN Len(s)
                  ELSE (CHOOSE k \in ends : \A m \in ends : k <= m) - 1
         IN  << SubSeq(s, 1, n) >> \o Fields(SubSeq(s, n + 1, Len(s)))

\* the names joined as fail2ban prints them
RECURSIVE JoinNames(_, _)
JoinNames(names, sep) ==
    IF names = << >> THEN << >>
    ELSE IF Len(names) = 1 THEN << names[1] >>
    ELSE << names[1] >> \o sep \o JoinNames(Tail(names), sep)

\* texts joined with a separator between them
RECURSIVE JoinTexts(_, _)
JoinTexts(texts, sep) ==
    IF texts = << >> THEN << >>
    ELSE IF Len(texts) = 1 THEN texts[1]
    ELSE texts[1] \o sep \o JoinTexts(Tail(texts), sep)

\* the output of "fail2ban-client status" for the given jails
StatusOutput(names) ==
    << << "Status" >>,
       << "- Number of jail", ":", "\t", "n" >>,
       << "- ", "Jail list", ":", "\t" >> \o JoinNames(names, << ",", " " >>) >>

\* the output of "fail2ban-client status <jail>" for the given addresses,
\* each address a text of its own
JailStatusOutput(name, ips) ==
    << << "Status for the jail", ":", " ", name >>,
       << "- Currently banned", ":", "\t", "n" >>,
       << "- Banned ", "IP list", ":", "\t" >> \o JoinTexts(ips, << " " >>) >>

\* the lines of GetJails' loop (client.go:201-212), the last marked line wins
RECURSIVE JailsOfLines(_, _)
JailsOfLines(jails, lines) ==
    IF lines = << >> THEN jails
    ELSE LET line == Head(lines)
             parts == Split(line, ":")
             raw == TrimSpace(parts[2])
             split == Split(raw, ",")
         IN  JailsOfLines(
                IF Contains(line, << "Jail list", ":" >>) /\ Len(parts) > 1
                THEN [i \in 1..Len(split) |-> TrimSpace(split[i])]
                ELSE jails,
                Tail(lines))

\* GetJails (client.go:192-214): cmd is what running the command gave
GetJails(cmd) ==
    IF cmd.err THEN [err |-> TRUE, jails |-> << >>]
    ELSE [err |-> FALSE, jails |-> JailsOfLines(<< >>, cmd.out)]

\* the lines of GetBannedIPs' loop (client.go:226-235), up to the first
\* marked line
RECURSIVE IPsOfLines(_)
IPsOfLines(lines) ==
    IF lines = << >> THEN << >>
    ELSE LET line == Head(lines)
             parts == Split(line, ":")
         IN  IF Contains(line, << "IP list", ":" >>)
             THEN IF Len(parts) > 1 THEN Fields(TrimSpace(parts[2])) ELSE << >>
             ELSE IPsOfLines(Tail(lines))

\* GetBannedIPs (client.go:217-237)
GetBannedIPs(cmd) ==
    IF cmd.err THEN [err |-> TRUE, ips |-> << >>]
    ELSE [err |-> FALSE, ips |-> IPsOfLines(cmd.out)]

StatusJails == Jails \cup { "recidive" }

\* fail2ban-client status, from the daemon's state
RunStatus(client) ==
    [err |-> client.down, out |-> StatusOutput(client.jails)]

\* fail2ban-client status <jail>: it fails for a jail the daemon does not
\* know and for the jails in client.failing
RunJailStatus(client, jail) ==
    IF /\ Len(jail) = 1
       /\ \E i \in 1..Len(client.jails) : client.jails[i] = jail[1]
       /\ jail[1] \notin client.failing
    THEN [err |-> FALSE, out |-> JailStatusOutput(jail[1], client.banned[jail[1]])]
    ELSE [err |-> TRUE, out |-> << >>]

\* time.Hour in milliseconds (client.go:268)
Hour == 3600000

\* events, ok := banHistory[jail] (client.go:280)
HistoryOf(history, jail) ==
    IF Len(jail) = 1 /\ jail[1] \in DOMAIN history THEN history[jail[1]] ELSE << >>

\* client.go:279-286
CountAfter(events, cutoff) ==
    Cardinality({ k \in 1..Len(events) : After(events[k].Time, cutoff) })

\* the jails left to visit when GetBannedIPs failed, if the loop ended there
JailsAfterError_Abort(rest) == << >>

\* the jails left to visit when GetBannedIPs failed: continue (client.go:273-276)
JailsAfterError(rest) == rest

\* the loop of BuildJailInfos (client.go:270-295)
RECURSIVE JailLoop(_, _, _, _, _)
JailLoop(results, jails, client, history, oneHourAgo) ==
    IF jails = << >> THEN results
    ELSE LET jail == Head(jails)
             b == GetBannedIPs(RunJailStatus(client, jail))
             jinfo == [ JailName      |-> jail,
                        TotalBanned   |-> Len(b.ips),
                        NewInLastHour |-> CountAfter(HistoryOf(history, jail), oneHourAgo),
                        BannedIPs     |-> b.ips ]
         IN  IF b.err
             THEN JailLoop(results, JailsAfterError(Tail(jails)), client, history, oneHourAgo)
             ELSE JailLoop(Append(results, jinfo), Tail(jails), client, history, oneHourAgo)

\* BuildJailInfos (client.go:254-297): now is time.Now()
BuildJailInfos(client, lines, readOk, now) ==
    LET j == GetJails(RunStatus(client))
        parsed == ParseBanLog(lines, readOk)
        banHistory == IF parsed.err THEN NoEvents ELSE parsed.eventsByJail
    IN  IF j.err THEN [err |-> TRUE, infos |-> << >>]
        ELSE [err |-> FALSE,
              infos |-> JailLoop(<< >>, j.jails, client, banHistory, now - Hour)]

\* the lists of jails a daemon can run: no jail twice
JailLists ==
    { l \in SeqsUpTo(StatusJails, MaxJails) :
        \A i, k \in 1..Len(l) : i # k => l[i] # l[k] }

\* the addresses the jails hold: recidive holds 2001:db8::1 and 10.0.0.7
BannedNow ==
    [ j \in StatusJails |->
        CASE j = "sshd" -> << << "10.0.0.5" >>, << "10.0.0.6" >> >>
          [] j = "recidive" -> << << "2001", ":", "db8", ":", ":", "1" >>, << "10.0.0.7" >> >>
          [] OTHER -> << >> ]

\* the daemon: whether it answers, its jails, the jails whose status fails,
\* and the addresses each jail holds
Clients ==
    { [down |-> d, jails |-> l, failing |-> f, banned |-> BannedNow] :
        d \in BOOLEAN, l \in JailLists, f \in SUBSET StatusJails }

\* bans as the daemon logged them, in the local time of the host
HourLines ==
    { LogLine(<< "2023-01-20", "09:00:00,000" >>, "fail2ban.actions", "NOTICE",
              "sshd", << "Ban" >>, "10.0.0.5"),
      LogLine(<< "2023-01-20", "10:00:00,000" >>, "fail2ban.actions", "NOTICE",
              "sshd", << "Ban" >>, "10.0.0.6"),
      LogLine(<< "2023-01-20", "10:00:00,000" >>, "fail2ban.actions", "NOTICE",
              "nginx-401", << "Ban" >>, "10.0.0.5") }

\* the local time of the host is UTC plus the offset
HostOffsets == { 0 - Hour, 0, Hour }

\* 2023-01-20 10:30:00 UTC
NowInstants == { 37800000 }

NoJailsCall == [op |-> "none", err |-> FALSE, jails |-> << >>, infos |-> << >>]

InitJails ==
    /\ StoreAtRest
    /\ ConcAtRest
    /\ AliasAtRest
    /\ logStage = "rest"
    /\ logErr = FALSE
    /\ eventsByJail = << >>
    /\ lastFive = << >>
    /\ secondFive = << >>
    /\ logLines \in SeqsUpTo(HourLines, MaxHourLog)
    /\ logReadOk \in BOOLEAN
    /\ fail2banClient \in { c \in Clients : \A j \in c.failing : \E i \in 1..Len(c.jails) : c.jails[i] = j }
    /\ hostClock \in [now : NowInstants, offset : HostOffsets]
    /\ jailsCall = NoJailsCall
    /\ ActionAtRest
    /\ ConfAtRest
    /\ PatchAtRest
    /\ ReloadAtRest

\* a call of GetJails
GetJailsCall ==
    /\ jailsCall.op = "none"
    /\ jailsCall' = [ op |-> "GetJails",
                      err |-> GetJails(RunStatus(fail2banClient)).err,
                      jails |-> GetJails(RunStatus(fail2banClient)).jails,
                      infos |-> << >> ]
    /\ UNCHANGED << fail2banClient, hostClock, logReadOk, storeVars, concVars, patchVars, reloadVars,
                    aliasVars, logVars, actionVars, confVars >>

\* a call of BuildJailInfos
BuildJailInfosCall ==
    /\ jailsCall.op = "none"
    /\ LET r == BuildJailInfos(fail2banClient, logLines, logReadOk, hostClock.now)
       IN  jailsCall' = [ op |-> "BuildJailInfos", err |-> r.err,
                          jails |-> << >>, infos |-> r.infos ]
    /\ UNCHANGED << fail2banClient, hostClock, logReadOk, storeVars, concVars, patchVars, reloadVars,
                    aliasVars, logVars, actionVars, confVars >>

NextJails ==
    \/ GetJailsCall
    \/ BuildJailInfosCall

SpecJails == InitJails /\ [][NextJails]_vars

\* a list of words as the texts the parsing functions return
AsTexts(words) == [i \in 1..Len(words) |-> << words[i] >>]

\* C16: GetJails returns the n >= 0 names of the "Jail list:" line, in the
\* reported order, trimmed
C16_GetJailsReturnsTheList ==
    (jailsCall.op = "GetJails" /\ ~jailsCall.err) =>
        jailsCall.jails = AsTexts(fail2banClient.jails)

\* the jails GetJails enumerates whose GetBannedIPs succeeds, by position
Enumerated == GetJails(RunStatus(fail2banClient)).jails

Succeeding ==
    { i \in 1..Len(Enumerated) : ~RunJailStatus(fail2banClient, Enumerated[i]).err }

\* what GetBannedIPs gives for a jail when no jail's status fails
AskedAlone(jail) ==
    GetBannedIPs(RunJailStatus([fail2banClient EXCEPT !.failing = {}], jail)).ips

\* C15: BuildJailInfos returns one JailInfo for exactly the enumerated jails
\* whose GetBannedIPs succeeded, in the order listed, each with the entries
\* GetBannedIPs gives for that jail whatever happened to the other jails
C15_FailingJailsAreSkipped ==
    (jailsCall.op = "BuildJailInfos" /\ ~fail2banClient.down) =>
        /\ ~jailsCall.err
        /\ Len(jailsCall.infos) = Cardinality(Succeeding)
        /\ \A i \in Succeeding :
             LET k == Cardinality({ i2 \in Succeeding : i2 <= i })
                 info == jailsCall.infos[k]
             IN  /\ info.JailName = Enumerated[i]
                 /\ info.BannedIPs = AskedAlone(Enumerated[i])
                 /\ info.TotalBanned = Len(AskedAlone(Enumerated[i]))

\* jails "sshd, nginx-401" with nginx-401 failing gave sshd's JailInfo alone
C15_Witness ==
    /\ jailsCall.op = "BuildJailInfos"
    /\ fail2banClient.jails = << "sshd", "nginx-401" >>
    /\ fail2banClient.failing = { "nginx-401" }
    /\ Len(jailsCall.infos) = 1
    /\ jailsCall.infos[1].JailName = << "sshd" >>
    /\ jailsCall.infos[1].TotalBanned = 2

\* the bans of a jail whose logged time, as local time of the host, is later
\* than one hour before now
RecentBans(jail) ==
    { i \in 1..Len(logLines) :
        /\ IsBanLine(logLines[i])
        /\ << FindStringSubmatch(logLines[i])[3] >> = jail
        /\ timeParse(logLines[i].stamp).t - hostClock.offset > hostClock.now - Hour }

\* C17: NewInLastHour counts the jail's events whose logged wall-clock time,
\* taken as local time of the host, is later than one hour before now,
\* whatever the host's offset from UTC; with an unreadable log it is 0 and
\* the call succeeds
C17_NewInLastHourIsLocalTime ==
    (jailsCall.op = "BuildJailInfos" /\ ~fail2banClient.down) =>
        /\ ~jailsCall.err
        /\ \A k \in 1..Len(jailsCall.infos) :
             jailsCall.infos[k].NewInLastHour =
                 IF logReadOk THEN Cardinality(RecentBans(jailsCall.infos[k].JailName))
                 ELSE 0

(***************************************************************************)
(* SpecAction: the action file rendered from the alert countries           *)
(* (part_005:234-309).  The text is the sequence of its words, blanks and  *)
(* quotes; what precedes and follows the country list in the template is   *)
(* one word each.                                                          *)
(***************************************************************************)
\* strings.ToLower, on the words the texts of the model hold
ToLower(w) ==
    CASE w \in { "ALL", "All", "all" } -> "all"
      [] w = "CH" -> "ch"
      [] w = "DE" -> "de"
      [] w = "JP" -> "jp"
      [] w \in { "Enabled", "ENABLED" } -> "enabled"
      [] w \in { "TRUE", "True" } -> "true"
      [] w \in { "FALSE", "False" } -> "false"
      [] OTHER -> w

\* "CH DE IT FR UK US" (part_005:238)
MatchEverything ==
    << "CH", " ", "DE", " ", "IT", " ", "FR", " ", "UK", " ", "US" >>

\* strings.Join(list, sep), each element a text
RECURSIVE Join(_, _)
Join(list, sep) ==
    IF list = << >> THEN << >>
    ELSE IF Len(list) = 1 THEN list[1]
    ELSE list[1] \o sep \o Join(Tail(list), sep)

\* part_005:237-247: the list as it is put into the template
countriesFormatted(alertCountries) ==
    LET list == IF Len(alertCountries) = 1 /\ ToLower(alertCountries[1]) = "all"
                THEN << MatchEverything >>
                ELSE AsTexts(alertCountries)
    IN  << "'", " " >> \o Join(list, << "'", " ", "'" >>) \o << " ", "'" >>

\* part_005:260-306: the template with %s replaced; the list stands between
\* two blanks in the double-quoted left operand of =~
actionConfig(alertCountries) ==
    << "[INCLUDES] ... if [[ \"" >>
       \o << " " >> \o countriesFormatted(alertCountries) \o << " " >>
       \o << "\" =~ \" $COUNTRY \" ]]; then ... #grepopts = -m <grepmax>" >>

\* [[ " <list> " =~ " $COUNTRY " ]] (part_005:276-277): the quoted right
\* operand is matched as a string, anywhere in the left operand
GuardSatisfied(config, country) ==
    Contains(SubSeq(config, 2, Len(config) - 1), << " ", country, " " >>)

\* the lists rendered: those of the settings, and the sentinel in either
\* case, alone and with a code
RenderLists ==
    CountryLists \cup { << "all" >>, << "ALL", "CH" >>, << "CH", "all" >> }

\* country codes of banned addresses
BannedCountries == { "CH", "DE", "JP" }

InitAction ==
    /\ StoreAtRest
    /\ ConcAtRest
    /\ AliasAtRest
    /\ LogAtRest
    /\ JailsAtRest
    /\ renderArgs \in [first : RenderLists, second : RenderLists, country : BannedCountries]
    /\ rendered = << >>
    /\ ConfAtRest
    /\ PatchAtRest
    /\ ReloadAtRest

\* writeFail2banAction(first)
RenderFirst ==
    /\ rendered = << >>
    /\ rendered' = << actionConfig(renderArgs.first) >>
    /\ UNCHANGED << renderArgs, storeVars, concVars, patchVars, reloadVars, aliasVars, logVars, jailsVars, confVars >>

\* writeFail2banAction(second)
RenderSecond ==
    /\ Len(rendered) = 1
    /\ rendered' = Append(rendered, actionConfig(renderArgs.second))
    /\ UNCHANGED << renderArgs, storeVars, concVars, patchVars, reloadVars, aliasVars, logVars, jailsVars, confVars >>

NextAction ==
    \/ RenderFirst
    \/ RenderSecond

SpecAction == InitAction /\ [][NextAction]_vars

\* C18: two renderings for the same country set, in whatever order the codes
\* are listed, give the same text
C18_SameSetSameText ==
    (Len(rendered) = 2 /\ Elems(renderArgs.first) = Elems(renderArgs.second)) =>
        rendered[1] = rendered[2]

\* C19: the guard is satisfied for every country when the list is empty or
\* holds the all-match sentinel, and exactly for the listed codes otherwise
C19_GuardMatchesTheList ==
    Len(rendered) >= 1 =>
        ( GuardSatisfied(rendered[1], renderArgs.country)
          <=> \/ renderArgs.first = << >>
              \/ \E i \in 1..Len(renderArgs.first) : ToLower(renderArgs.first[i]) = "all"
              \/ renderArgs.country \in Elems(renderArgs.first) )

(***************************************************************************)
(* SpecConf: the jail files (part_006).  A line is a text, as in           *)
(* SpecJails, with "[", "]" and "=" among its separators.                  *)
(***************************************************************************)
MaxConfLen == 3
MaxSecondary == 1

Header(name) == << "[", name, "]" >>

EnabledLine(key, value) == << key, " ", "=", " ", value >>

ConfLines ==
    { Header("DEFAULT"), Header("sshd"), Header("nginx-401"),
      EnabledLine("enabled", "false"), EnabledLine("Enabled", "TRUE"),
      << "port", " ", "=", " ", "ssh" >> }

\* strings.HasPrefix(s, w) and strings.HasSuffix(s, w) for a word or a
\* separator w
HasPrefix(s, w) == Len(s) >= 1 /\ s[1] = w

HasSuffix(s, w) == Len(s) >= 1 /\ s[Len(s)] = w

\* strings.Trim(s, "[]")
RECURSIVE TrimBrackets(_)
TrimBrackets(s) ==
    IF s = << >> THEN s
    ELSE IF s[1] \in { "[", "]" } THEN TrimBrackets(Tail(s))
    ELSE IF s[Len(s)] \in { "[", "]" } THEN TrimBrackets(SubSeq(s, 1, Len(s) - 1))
    ELSE s

\* strings.EqualFold(s, w) for a lower-case word w
EqualFold(s, w) == Len(s) = 1 /\ ToLower(s[1]) = w

\* enabled at the start of a section, if the header left it as it was
EnabledAfterHeader_Carries(enabled) == enabled

\* enabled at the start of a section (part_006:74)
EnabledAfterHeader(enabled) == TRUE

\* the loop of parseJailConfigFile (part_006:61-83) and the final jail
\* (part_006:85-90)
RECURSIVE ParseConfLines(_, _, _, _)
ParseConfLines(jails, currentJail, enabled, lines) ==
    LET saved == IF currentJail # << >> /\ currentJail # << "DEFAULT" >>
                 THEN Append(jails, [JailName |-> currentJail, Enabled |-> enabled])
                 ELSE jails
    IN  IF lines = << >> THEN saved
        ELSE LET line == TrimSpace(Head(lines))
                 parts == Split(line, "=")
             IN  IF HasPrefix(line, "[") /\ HasSuffix(line, "]")
                 THEN ParseConfLines(saved, TrimBrackets(line),
                                     EnabledAfterHeader(enabled), Tail(lines))
                 ELSE IF Len(line) >= 1 /\ ToLower(line[1]) = "enabled"
                 THEN ParseConfLines(jails, currentJail,
                                     IF Len(parts) = 2
                                     THEN EqualFold(TrimSpace(parts[2]), "true")
                                     ELSE enabled,
                                     Tail(lines))
                 ELSE ParseConfLines(jails, currentJail, enabled, Tail(lines))

\* parseJailConfigFile (part_006:48-92): a file that does not open, or that
\* the scanner does not read to its end, gives an error
parseJailConfigFile(file) ==
    IF file.readable
    THEN [err |-> FALSE, jails |-> ParseConfLines(<< >>, << >>, TRUE, file.lines)]
    ELSE [err |-> TRUE, jails |-> << >>]

\* the loop of GetAllJails over jail.d (part_006:33-41)
RECURSIVE ParseSecondary(_, _)
ParseSecondary(jails, files) ==
    IF files = << >> THEN jails
    ELSE LET f == Head(files)
             dJails == parseJailConfigFile(f)
         IN  ParseSecondary(
                IF ~f.isDir /\ f.ext = ".conf" /\ ~dJails.err
                THEN jails \o dJails.jails ELSE jails,
                Tail(files))

\* GetAllJails (part_006:14-44)
GetAllJails(files) ==
    LET localJails == parseJailConfigFile(files.primary)
    IN  IF localJails.err THEN [err |-> TRUE, jails |-> << >>]
        ELSE [err |-> FALSE,
              jails |-> IF files.dirReadable
                        THEN ParseSecondary(localJails.jails, files.secondary)
                        ELSE localJails.jails]

ConfFile(ext, isDir, readable, lines) ==
    [ext |-> ext, isDir |-> isDir, readable |-> readable, lines |-> lines]

\* jail.local: every file up to MaxConfLen lines, or an unreadable one
PrimaryFiles ==
    { ConfFile(".local", FALSE, TRUE, l) : l \in SeqsUpTo(ConfLines, MaxConfLen) }
        \cup { ConfFile(".local", FALSE, FALSE, << >>) }

\* entries of jail.d: .conf and .local files, a directory, an unreadable file
SecondaryFiles ==
    { ConfFile(".conf", FALSE, TRUE, << Header("sshd"), EnabledLine("enabled", "false") >>),
      ConfFile(".conf", FALSE, TRUE, << Header("DEFAULT"), EnabledLine("enabled", "false"),
                                        Header("recidive") >>),
      ConfFile(".local", FALSE, TRUE, << Header("sshd") >>),
      ConfFile(".conf", TRUE, FALSE, << >>),
      ConfFile(".conf", FALSE, FALSE, << >>) }

\* no call made yet; updates and before are the map and the files an update
\* was called with
NoConfCall ==
    [op |-> "none", err |-> FALSE, jails |-> << >>, updates |-> << >>, before |-> << >>]

InitConf ==
    /\ StoreAtRest
    /\ ConcAtRest
    /\ AliasAtRest
    /\ LogAtRest
    /\ JailsAtRest
    /\ ActionAtRest
    /\ PatchAtRest
    /\ ReloadAtRest
    /\ confFiles \in [ primary : PrimaryFiles, dirReadable : BOOLEAN,
                       secondary : SeqsUpTo(SecondaryFiles, MaxSecondary) ]
    /\ confCall = NoConfCall

\* a call of GetAllJails
GetAllJailsCall ==
    /\ confCall.op = "none"
    /\ confCall' = [ NoConfCall EXCEPT !.op = "GetAllJails",
                                       !.err = GetAllJails(confFiles).err,
                                       !.jails = GetAllJails(confFiles).jails ]
    /\ UNCHANGED << confFiles, storeVars, concVars, patchVars, reloadVars, aliasVars, logVars, jailsVars,
                    actionVars >>

NextConf == GetAllJailsCall

SpecConf == InitConf /\ [][NextConf]_vars

IsHeader(line) == Len(line) = 3 /\ line[1] = "[" /\ line[3] = "]"

\* the section headers of a file other than [DEFAULT], by line number
JailHeaders(lines) ==
    { i \in 1..Len(lines) : IsHeader(lines[i]) /\ lines[i][2] # "DEFAULT" }

\* the enabled lines of the section that starts at line i
EnabledLinesOf(lines, i) ==
    { k \in (i + 1)..Len(lines) :
        /\ \A m \in (i + 1)..k : ~IsHeader(lines[m])
        /\ lines[k] \in { EnabledLine("enabled", "false"), EnabledLine("Enabled", "TRUE") } }

\* the entry list_jails is to return for the section that starts at line i:
\* the value of the section's (last) enabled line, true without one
EntryOf(lines, i) ==
    LET e == EnabledLinesOf(lines, i)
    IN  [ JailName |-> << lines[i][2] >>,
          Enabled  |-> IF e = {} THEN TRUE
                       ELSE lines[CHOOSE k \in e : \A m \in e : m <= k]
                              = EnabledLine("Enabled", "TRUE") ]

EntriesOf(lines) ==
    [ k \in 1..Cardinality(JailHeaders(lines)) |->
        EntryOf(lines, CHOOSE i \in JailHeaders(lines) :
                          Cardinality({ i2 \in JailHeaders(lines) : i2 <= i }) = k) ]

\* the files list_jails reads: the primary file and the readable .conf files
\* of the secondary directory
FilesRead ==
    << confFiles.primary >> \o
    ( IF confFiles.dirReadable
      THEN SelectSeq(confFiles.secondary,
                     LAMBDA f : ~f.isDir /\ f.ext = ".conf" /\ f.readable)
      ELSE << >> )

RECURSIVE AllEntries(_)
AllEntries(files) ==
    IF files = << >> THEN << >>
    ELSE EntriesOf(Head(files).lines) \o AllEntries(Tail(files))

\* C20: GetAllJails returns one entry per section header of the primary file
\* and of each secondary .conf file, [DEFAULT] excepted, with the value of the
\* section's enabled line, or true when the section has none
C20_OneEntryPerSection ==
    (confCall.op = "GetAllJails" /\ confFiles.primary.readable) =>
        /\ ~confCall.err
        /\ confCall.jails = AllEntries(FilesRead)

\* a primary file with [DEFAULT], a jail with enabled = false and a jail
\* without an enabled line, and a secondary .conf file, have been listed
C20_Witness ==
    /\ confCall.op = "GetAllJails"
    /\ \E i \in 1..Len(confFiles.primary.lines) : confFiles.primary.lines[i] = Header("DEFAULT")
    /\ \E k \in 1..Len(confCall.jails) : ~confCall.jails[k].Enabled
    /\ \E k \in 1..Len(confCall.jails) : confCall.jails[k].Enabled
    /\ \E k \in 1..Len(confCall.jails) : confCall.jails[k].JailName = << "recidive" >>

(***************************************************************************)
(* C22                                                                     *)
(***************************************************************************)
\* the value jail.local gives for a key, if it gives a parseable one
FileGives(jail, key) ==
    /\ jail.readable
    /\ key \in DOMAIN jail.settings
    /\ key = "maxretry" => Atoi(jail.settings[key]).ok

\* C22: after a bootstrap, ban duration, find window, max retries, ignore
\* list and destination email each equal the value jail.local gives for the
\* key (max retries 0 included) when it gives a parseable one, and the
\* built-in default otherwise; the bootstrap completes whatever steps fail
C22_BootstrapTakesFileValues ==
    (last.bootstrapped /\ last.op = "init") =>
        LET jail == last.jail
            s == currentSettings
        IN  /\ phase = "run"
            /\ s.Bantime = IF FileGives(jail, "bantime") THEN jail.settings["bantime"]
                           ELSE DefaultSettings.Bantime
            /\ s.Findtime = IF FileGives(jail, "findtime") THEN jail.settings["findtime"]
                            ELSE DefaultSettings.Findtime
            /\ s.Maxretry = IF FileGives(jail, "maxretry")
                            THEN Atoi(jail.settings["maxretry"]).val
                            ELSE DefaultSettings.Maxretry
            /\ s.IgnoreIP = IF FileGives(jail, "ignoreip") THEN jail.settings["ignoreip"]
                            ELSE DefaultSettings.IgnoreIP
            /\ s.Destemail = IF FileGives(jail, "destemail") THEN jail.settings["destemail"]
                             ELSE DefaultSettings.Destemail

(***************************************************************************)
(* Two calls of GetLastFiveBans on one parse result, and what one returns  *)
(***************************************************************************)
\* the lines of the log an event can stem from
LinesOf(ev) == { i \in 1..Len(logLines) : logLines[i] = ev.LogLine }

\* C23: two calls of GetLastFiveBans with the same parsed log return the same
\* sequence of events, and of two different events with the same timestamp
\* the one met first in the log comes first
C23_Deterministic ==
    logStage = "listedTwice" =>
        /\ secondFive = lastFive
        /\ \A k \in 1..Len(lastFive), m \in 1..Len(lastFive) :
             (k < m /\ lastFive[k].Time = lastFive[m].Time /\ lastFive[k] # lastFive[m]) =>
                 \E i \in LinesOf(lastFive[k]), i2 \in LinesOf(lastFive[m]) : i < i2

\* how often an event occurs in a list
Count(list, ev) == Cardinality({ k \in 1..Len(list) : list[k] = ev })

AllEvents == MergeAll(eventsByJail, CHOOSE o \in JailOrders : TRUE)

\* the events of the parse result that the list of last bans leaves out
LeftOut == { ev \in Elems(AllEvents) : Count(AllEvents, ev) > Count(lastFive, ev) }

\* C30: with n parsed events the list of last bans has min(5, n) events, holds
\* no event more often than the parse result does, is in non-increasing order
\* of the timestamps, and no event left out is later than an event returned
C30_LastFiveOfAll ==
    logStage = "listed" =>
        /\ Len(lastFive) = (IF TotalEvents < LastFive THEN TotalEvents ELSE LastFive)
        /\ \A k \in 1..Len(lastFive) : Count(lastFive, lastFive[k]) <= Count(AllEvents, lastFive[k])
        /\ \A k \in 1..(Len(lastFive) - 1) : ~(lastFive[k].Time < lastFive[k + 1].Time)
        /\ \A ev \in LeftOut : \A k \in 1..Len(lastFive) : ev.Time <= lastFive[k].Time

\* six events were parsed, the same event more than once among them; five
\* were returned and the one left out is earlier than each of them
C30_Witness ==
    /\ logStage = "listed"
    /\ TotalEvents = LastFive + 1
    /\ Len(lastFive) = LastFive
    /\ \E k \in 1..Len(lastFive) : Count(AllEvents, lastFive[k]) > 1
    /\ \E ev \in LeftOut : \A k \in 1..Len(lastFive) : ev.Time < lastFive[k].Time

\* the whitespace-separated tokens that follow the "IP list:" marker on the
\* line of a status output that carries it
TokensAfterMarker(out) ==
    LET marked == { n \in 1..Len(out) : Contains(out[n], << "IP list", ":" >>) }
        line == out[CHOOSE n \in marked : \A m \in marked : n <= m]
        at == CHOOSE i \in 1..(Len(line) - 1) :
                 /\ SubSeq(line, i, i + 1) = << "IP list", ":" >>
                 /\ \A m \in 1..(i - 1) : SubSeq(line, m, m + 1) # << "IP list", ":" >>
    IN  IF marked = {} THEN << >> ELSE Fields(SubSeq(line, at + 2, Len(line)))

\* C24: for every jail whose status command succeeds, BannedIPs is the list
\* of whitespace-separated tokens after the "IP list:" marker of the output,
\* in order, whatever the form of the addresses, and TotalBanned its length
C24_BannedIPsAreTheTokens ==
    (jailsCall.op = "BuildJailInfos" /\ ~fail2banClient.down) =>
        \A k \in 1..Len(jailsCall.infos) :
            LET info == jailsCall.infos[k]
                status == RunJailStatus(fail2banClient, info.JailName)
            IN  /\ ~status.err
                /\ info.BannedIPs = TokensAfterMarker(status.out)
                /\ info.TotalBanned = Len(TokensAfterMarker(status.out))

(***************************************************************************)
(* SpecReconcile: UpdateJailEnabledStates on the jail files, then          *)
(* GetAllJails (part_006)                                                  *)
(***************************************************************************)
UpdateJails == { "sshd", "recidive" }

\* the maps UpdateJailEnabledStates can be called with
UpdateMaps == UNION { [d -> BOOLEAN] : d \in SUBSET UpdateJails }

\* the orders in which ranging over the map can visit its jails
UpdateOrders ==
    { o \in [1..Cardinality(UpdateJails) -> UpdateJails] :
        \A j \in UpdateJails : \E k \in DOMAIN o : o[k] = j }

\* fmt.Sprintf("%t", val)
FormatBool(val) == IF val THEN "true" ELSE "false"

\* val, ok := updates[currentJail]
HasUpdate(updates, currentJail) ==
    Len(currentJail) = 1 /\ currentJail[1] \in DOMAIN updates

\* delete(updates, currentJail) (part_006:136)
Delete(updates, jail) == [j \in DOMAIN updates \ { jail } |-> updates[j]]

\* the loop of updateJailConfigFile over the lines (part_006:126-142)
RECURSIVE UpdateLines(_, _, _, _)
UpdateLines(outputLines, currentJail, updates, lines) ==
    IF lines = << >> THEN [lines |-> outputLines, updates |-> updates]
    ELSE LET line == Head(lines)
             trimmed == TrimSpace(line)
         IN  IF HasPrefix(trimmed, "[") /\ HasSuffix(trimmed, "]")
             THEN UpdateLines(Append(outputLines, line), TrimBrackets(trimmed),
                              updates, Tail(lines))
             ELSE IF HasPrefix(trimmed, "enabled") /\ HasUpdate(updates, currentJail)
             THEN UpdateLines(Append(outputLines,
                                     EnabledLine("enabled", FormatBool(updates[currentJail[1]]))),
                              currentJail, Delete(updates, currentJail[1]), Tail(lines))
             ELSE UpdateLines(Append(outputLines, line), currentJail, updates, Tail(lines))

\* the sections appended for the jails still in the map (part_006:144-147),
\* in the order ranging over the map gives them
RECURSIVE AppendedSections(_, _)
AppendedSections(updates, order) ==
    IF order = << >> THEN << >>
    ELSE ( IF Head(order) \in DOMAIN updates
           THEN << Header(Head(order)),
                   EnabledLine("enabled", FormatBool(updates[Head(order)])) >>
           ELSE << >> ) \o AppendedSections(updates, Tail(order))

\* updateJailConfigFile (part_006:118-150): the file as it is afterwards, the
\* map as the call leaves it, and the error; writeOk is whether os.WriteFile
\* succeeds
updateJailConfigFile(file, updates, order, writeOk) ==
    IF ~file.readable THEN [err |-> TRUE, file |-> file, updates |-> updates]
    ELSE LET r == UpdateLines(<< >>, << >>, updates, file.lines)
             newContent == r.lines \o AppendedSections(r.updates, order)
         IN  [ err |-> ~writeOk,
               file |-> IF writeOk THEN [file EXCEPT !.lines = newContent] ELSE file,
               updates |-> r.updates ]

\* the loop of UpdateJailEnabledStates over jail.d (part_006:105-112): errors
\* are ignored, the one map goes from file to file
RECURSIVE UpdateSecondary(_, _, _, _, _)
UpdateSecondary(done, files, updates, order, writeOk) ==
    IF files = << >> THEN done
    ELSE LET f == Head(files)
             r == updateJailConfigFile(f, updates, order, writeOk)
         IN  IF ~f.isDir /\ f.ext = ".conf"
             THEN UpdateSecondary(Append(done, r.file), Tail(files), r.updates, order, writeOk)
             ELSE UpdateSecondary(Append(done, f), Tail(files), updates, order, writeOk)

\* UpdateJailEnabledStates (part_006:96-115)
UpdateJailEnabledStates(files, updates, order, order2, writeOk, writeOk2) ==
    LET p == updateJailConfigFile(files.primary, updates, order, writeOk)
    IN  IF p.err THEN [err |-> TRUE, files |-> files]
        ELSE [ err |-> FALSE,
               files |-> [ files EXCEPT
                             !.primary = p.file,
                             !.secondary =
                                 IF files.dirReadable
                                 THEN UpdateSecondary(<< >>, files.secondary, p.updates,
                                                      order2, writeOk2)
                                 ELSE @ ] ]

InitReconcile ==
    /\ StoreAtRest
    /\ ConcAtRest
    /\ AliasAtRest
    /\ LogAtRest
    /\ JailsAtRest
    /\ ActionAtRest
    /\ PatchAtRest
    /\ ReloadAtRest
    /\ confFiles \in [ primary : PrimaryFiles, dirReadable : BOOLEAN,
                       secondary : SeqsUpTo(SecondaryFiles, MaxSecondary) ]
    /\ confCall = NoConfCall

\* a call of UpdateJailEnabledStates
UpdateJailEnabledStatesCall(updates, order, order2, writeOk, writeOk2) ==
    /\ confCall.op = "none"
    /\ LET r == UpdateJailEnabledStates(confFiles, updates, order, order2, writeOk, writeOk2)
       IN  /\ confFiles' = r.files
           /\ confCall' = [ NoConfCall EXCEPT !.op = "UpdateJailEnabledStates",
                                              !.err = r.err,
                                              !.updates = updates,
                                              !.before = confFiles ]
    /\ UNCHANGED << storeVars, concVars, patchVars, reloadVars, aliasVars, logVars, jailsVars, actionVars >>

\* a call of GetAllJails after an update that returned without error
GetAllJailsAfterUpdate ==
    /\ confCall.op = "UpdateJailEnabledStates"
    /\ ~confCall.err
    /\ confCall' = [ confCall EXCEPT !.op = "GetAllJails",
                                     !.err = GetAllJails(confFiles).err,
                                     !.jails = GetAllJails(confFiles).jails ]
    /\ UNCHANGED << confFiles, storeVars, concVars, patchVars, reloadVars, aliasVars, logVars, jailsVars,
                    actionVars >>

NextReconcile ==
    \/ \E updates \in UpdateMaps, order, order2 \in UpdateOrders, writeOk, writeOk2 \in BOOLEAN :
          UpdateJailEnabledStatesCall(updates, order, order2, writeOk, writeOk2)
    \/ GetAllJailsAfterUpdate

SpecReconcile == InitReconcile /\ [][NextReconcile]_vars

\* the lines of a file that are the header of jail j
HeadersOf(lines, j) == { i \in 1..Len(lines) : lines[i] = Header(j) }

Updated == confCall.op = "UpdateJailEnabledStates" /\ ~confCall.err

\* C21: after an update the primary file holds exactly one section header
\* for every updated jail that had at most one before, and a section was
\* appended only for a jail that had none
C21_OneSectionPerUpdatedJail ==
    Updated =>
        \A j \in DOMAIN confCall.updates :
            LET before == Cardinality(HeadersOf(confCall.before.primary.lines, j))
                after == Cardinality(HeadersOf(confFiles.primary.lines, j))
            IN  /\ before <= 1 => after = 1
                /\ after > before => before = 0

\* C26: when GetAllJails is called after an update u that returned without
\* error, every entry it returns for a jail j of u has Enabled = u[j]
C26_ListedAsUpdated ==
    (confCall.op = "GetAllJails" /\ confCall.before # << >> /\ ~confCall.err) =>
        \A k \in 1..Len(confCall.jails) :
            LET name == confCall.jails[k].JailName
            IN  HasUpdate(confCall.updates, name) =>
                    confCall.jails[k].Enabled = confCall.updates[name[1]]

\* the enabled lines, by line number, in the sections of the jails of u
UpdatedEnabledLines(lines, u) ==
    { k \in 1..Len(lines) :
        /\ HasPrefix(TrimSpace(lines[k]), "enabled")
        /\ \E i \in 1..(k - 1) :
             /\ IsHeader(lines[i]) /\ lines[i][2] \in DOMAIN u
             /\ \A m \in (i + 1)..k : ~IsHeader(lines[m]) }

\* the lines of a file are kept, in order, but for the enabled lines of the
\* updated jails; what is new comes after them
Kept(before, after, u) ==
    /\ Len(after) >= Len(before)
    /\ \A i \in 1..Len(before) :
         i \notin UpdatedEnabledLines(before, u) => after[i] = before[i]

\* C29: an update leaves every line of every file in place but for the
\* enabled lines of the updated jails, gives no secondary file a section it
\* did not have, and adds at most one section per jail over all files
C29_AtMostOneNewSection ==
    Updated =>
        LET u == confCall.updates
            old == confCall.before
        IN  /\ Kept(old.primary.lines, confFiles.primary.lines, u)
            /\ \A n \in 1..Len(old.secondary) :
                 /\ Kept(old.secondary[n].lines, confFiles.secondary[n].lines, u)
                 /\ \A j \in UpdateJails :
                      HeadersOf(confFiles.secondary[n].lines, j)
                          = HeadersOf(old.secondary[n].lines, j)
            /\ \A j \in UpdateJails :
                 Cardinality(HeadersOf(confFiles.primary.lines, j))
                     <= Cardinality(HeadersOf(old.primary.lines, j)) + 1

(***************************************************************************)
(* SpecPatch: setupGeoCustomAction on jail.local (settings.go:200-247),    *)
(* run again and again as each start of the program does                   *)
(***************************************************************************)
MaxPatchLen == 3
MaxRuns == 3

\* "# Custom Fail2Ban action applied" (settings.go:220)
Sentinel == << "#", " ", "Custom Fail2Ban action applied" >>

\* "# Custom Fail2Ban action applied by fail2ban-ui" (settings.go:232)
MarkerLine == Sentinel \o << " by fail2ban-ui" >>

ActionLine(value) == << "action", " ", "=", " ", value >>

\* the lines of a jail.local: a header, action lines with and without a
\* value that starts with %, one written tightly, the marker, a line the
\* user commented out, the line the patch writes, and an action line that
\* carries the sentinel behind it
PatchLines ==
    { Header("DEFAULT"),
      ActionLine("%(action_mw)s"),
      ActionLine("iptables"),
      << "\t", "action", "=", "%(action_)s", " " >>,
      MarkerLine,
      << "#", " " >> \o ActionLine("%(action_mw)s"),
      ActionLine("%(action_mwlg)s"),
      ActionLine("%(action_mw)s") \o << " " >> \o Sentinel }

\* actionPattern.MatchString(line) (settings.go:210, 225): blanks, action,
\* blanks, =, blanks, and a value that starts with %
MatchString(line) ==
    LET t == TrimSpace(line)
        r == TrimSpace(Tail(t))
        v == TrimSpace(Tail(r))
    IN  /\ t # << >> /\ t[1] = "action"
        /\ r # << >> /\ r[1] = "="
        /\ v # << >> /\ v[1] \in { "%(action_mw)s", "%(action_)s", "%(action_mwlg)s" }

\* the loop of setupGeoCustomAction over the lines (settings.go:215-237)
RECURSIVE PatchScan(_, _, _, _)
PatchScan(scanned, lines, alreadyModified, actionFound) ==
    IF scanned = << >>
    THEN [lines |-> lines, alreadyModified |-> alreadyModified, actionFound |-> actionFound]
    ELSE LET line == Head(scanned)
             modified == alreadyModified \/ Contains(line, Sentinel)
         IN  IF MatchString(line) /\ ~modified
             THEN PatchScan(Tail(scanned),
                            lines \o << << "#", " " >> \o line,
                                        MarkerLine,
                                        ActionLine("%(action_mwlg)s") >>,
                            modified, TRUE)
             ELSE PatchScan(Tail(scanned), Append(lines, line), modified, actionFound)

\* the file is written whenever an action line was found
SkipWrite_WhenNoneFound(actionFound, alreadyModified) == ~actionFound

\* if !actionFound || alreadyModified { return nil } (settings.go:240-242)
SkipWrite(actionFound, alreadyModified) == ~actionFound \/ alreadyModified

\* setupGeoCustomAction (settings.go:201-247): the error and the file as it
\* is afterwards; the lines are written joined by newlines, none at the end
setupGeoCustomAction(file, writeOk) ==
    IF ~file.readable THEN [err |-> TRUE, file |-> file]
    ELSE LET r == PatchScan(file.lines, << >>, FALSE, FALSE)
         IN  IF SkipWrite(r.actionFound, r.alreadyModified)
             THEN [err |-> FALSE, file |-> file]
             ELSE [ err |-> ~writeOk,
                    file |-> IF writeOk
                             THEN [file EXCEPT !.lines = r.lines, !.newline = FALSE]
                             ELSE file ]

\* jail.local: up to MaxPatchLen lines, with or without a final newline, or
\* a file that does not open
JailLocalFiles ==
    { [readable |-> TRUE, lines |-> l, newline |-> n] :
        l \in SeqsUpTo(PatchLines, MaxPatchLen) \ { << >> }, n \in BOOLEAN }
      \cup { [readable |-> TRUE, lines |-> << >>, newline |-> FALSE],
             [readable |-> FALSE, lines |-> << >>, newline |-> FALSE] }

InitPatch ==
    /\ StoreAtRest
    /\ ConcAtRest
    /\ AliasAtRest
    /\ LogAtRest
    /\ JailsAtRest
    /\ ActionAtRest
    /\ ConfAtRest
    /\ ReloadAtRest
    /\ jailLocal \in JailLocalFiles
    /\ patchCall = [runs |-> 0, err |-> FALSE, initial |-> jailLocal,
                    settled |-> FALSE, after |-> jailLocal]

\* a run of setupGeoCustomAction; after is the file as the first run that
\* returned without error left it
SetupGeoCustomActionCall(writeOk) ==
    /\ patchCall.runs < MaxRuns
    /\ LET r == setupGeoCustomAction(jailLocal, writeOk)
       IN  /\ jailLocal' = r.file
           /\ patchCall' = [ patchCall EXCEPT
                               !.runs = @ + 1,
                               !.err = r.err,
                               !.settled = @ \/ ~r.err,
                               !.after = IF ~patchCall.settled /\ ~r.err THEN r.file ELSE @ ]
    /\ UNCHANGED << storeVars, concVars, aliasVars, logVars, jailsVars, actionVars,
                    confVars, reloadVars >>

NextPatch == \E writeOk \in BOOLEAN : SetupGeoCustomActionCall(writeOk)

SpecPatch == InitPatch /\ [][NextPatch]_vars

\* C25: once a run of the patch has returned without error, every further
\* run leaves the file as that run left it; a file with no matching action
\* line, or with the sentinel comment, stays as it was through every run
C25_PatchIsIdempotent ==
    LET first == patchCall.initial.lines
    IN  /\ patchCall.settled => jailLocal = patchCall.after
        /\ ( \/ \A i \in 1..Len(first) : ~MatchString(first[i])
             \/ \E i \in 1..Len(first) : Contains(first[i], Sentinel) )
               => jailLocal = patchCall.initial

\* a file with two action lines was patched by one run, and two more runs
\* were made after it
C25_Witness ==
    /\ patchCall.runs = MaxRuns
    /\ patchCall.settled
    /\ Len(patchCall.initial.lines) = MaxPatchLen
    /\ Len(patchCall.after.lines) = Len(patchCall.initial.lines) + 4
    /\ jailLocal = patchCall.after

(***************************************************************************)
(* SpecReload: ReloadFail2banHandler (handlers.go:373-396) running next to *)
(* UpdateSettings calls.  Each settings call is one step: the calls hold   *)
(* the write lock from their first to their last statement.  reloadCall    *)
(* counts the updates that changed the policy (applied) and remembers how  *)
(* many of them had been applied when the last daemon reload began         *)
(* (covered).                                                              *)
(***************************************************************************)
NoReload == [pc |-> "idle", applied |-> 0, covered |-> 0, reloads |-> 0]

InitReload ==
    /\ phase = "run"
    /\ currentSettings \in ConcStartSettings
    /\ settingsFile = LoadableFile(currentSettings)
    /\ actionFile = "written"
    /\ last = NoCall
    /\ ConcAtRest
    /\ AliasAtRest
    /\ LogAtRest
    /\ JailsAtRest
    /\ ActionAtRest
    /\ ConfAtRest
    /\ PatchAtRest
    /\ reloadCall = NoReload

\* the update makes UpdateSettings set the flag (settings.go:401-417)
ChangesPolicy(old, new) ==
    \/ ScalarPolicy(old) # ScalarPolicy(new)
    \/ ~equalStringSlices(old.AlertCountries, new.AlertCountries)

\* UpdateSettingsHandler (handlers.go:277-291): a call of UpdateSettings
ReloadUpdateSettings(new) ==
    /\ reloadCall.applied < MaxOps
    /\ LET old    == currentSettings
           merged == MergedSettings(old, new)
           saved  == saveSettings(merged, TRUE, TRUE)
       IN  /\ currentSettings' = StoredAfterUpdate(old, merged, saved.err)
           /\ settingsFile' = saved.settingsFile
           /\ actionFile' = saved.actionFile
           /\ reloadCall' = [reloadCall EXCEPT
                               !.applied = IF ChangesPolicy(old, new) THEN @ + 1 ELSE @]
    /\ UNCHANGED << phase, last, concVars, aliasVars, logVars, jailsVars, actionVars,
                    confVars, patchVars >>

\* ReloadFail2banHandler calls ReloadFail2ban (handlers.go:385): the daemon
\* begins to reload
ReloadStart ==
    /\ reloadCall.pc = "idle"
    /\ reloadCall.reloads < MaxOps
    /\ reloadCall' = [reloadCall EXCEPT !.pc = "reloading",
                                        !.covered = reloadCall.applied,
                                        !.reloads = @ + 1]
    /\ UNCHANGED << storeVars, concVars, aliasVars, logVars, jailsVars, actionVars,
                    confVars, patchVars >>

\* ReloadFail2ban returns (handlers.go:385-388): with an error the handler
\* answers and ends
ReloadReturn(ok) ==
    /\ reloadCall.pc = "reloading"
    /\ reloadCall' = [reloadCall EXCEPT !.pc = IF ok THEN "markDone" ELSE "idle"]
    /\ UNCHANGED << storeVars, concVars, aliasVars, logVars, jailsVars, actionVars,
                    confVars, patchVars >>

\* the handler calls MarkReloadDone (handlers.go:391, settings.go:383-389)
ReloadMarkDone ==
    /\ reloadCall.pc = "markDone"
    /\ LET s     == ReloadDone(currentSettings)
           saved == saveSettings(s, TRUE, TRUE)
       IN  /\ currentSettings' = s
           /\ settingsFile' = saved.settingsFile
           /\ actionFile' = saved.actionFile
    /\ reloadCall' = [reloadCall EXCEPT !.pc = "idle"]
    /\ UNCHANGED << phase, last, concVars, aliasVars, logVars, jailsVars, actionVars,
                    confVars, patchVars >>

NextReload ==
    \/ \E new \in Payloads : ReloadUpdateSettings(new)
    \/ ReloadStart
    \/ \E ok \in BOOLEAN : ReloadReturn(ok)
    \/ ReloadMarkDone

SpecReload == InitReload /\ [][NextReload]_vars

\* C28: ReloadNeeded is false only if the daemon's last reload began after
\* the last update that changed the policy was applied
C28_FlagClearedOnlyWhenCovered ==
    ~currentSettings.ReloadNeeded => reloadCall.covered = reloadCall.applied

(***************************************************************************)
(* SpecRelock: the settings calls of part_004, where saveSettings takes    *)
(* the read lock itself.  pc[p] is the list of the steps goroutine p has   *)
(* still to make; "main" runs init() before any request is served.         *)
(* Language and Sender are carried by no step of the locking.              *)
(***************************************************************************)
\* setDefaults (part_004:181-197)
OldDefaults ==
    [ ZeroSettings EXCEPT !.BantimeIncrement = TRUE,
                          !.IgnoreIP = "127.0.0.1/8 ::1 172.16.10.1/24",
                          !.Bantime = "48h", !.Findtime = "30m",
                          !.Maxretry = 3, !.Destemail = "admin@swissmakers.ch" ]

\* UpdateSettings (part_004:246-263): the value stored
OldMerged(old, new) ==
    [ new EXCEPT !.ReloadNeeded =
        IF ScalarPolicy(old) # ScalarPolicy(new) THEN TRUE
        ELSE new.ReloadNeeded \/ old.ReloadNeeded ]

\* saveSettings (part_004:221-230)
saveSettingsSteps == << "RLock", "write", "RUnlock" >>

\* init (part_004:164-178) with setDefaults (181-197) when loadSettings
\* fails, with loadSettings (200-218) when it succeeds
initSteps(loadable) ==
    IF loadable THEN << "Lock", "load", "Unlock" >>
    ELSE << "Lock", "defaults", "Unlock" >> \o saveSettingsSteps

\* UpdateSettings (part_004:241-269), MarkReloadDone (272-277) and
\* GetSettings (233-237)
CallSteps ==
    [ UpdateSettings |-> << "Lock", "store" >> \o saveSettingsSteps \o << "Unlock" >>,
      MarkReloadDone |-> << "Lock", "clear" >> \o saveSettingsSteps \o << "Unlock" >>,
      GetSettings    |-> << "RLock", "copy", "RUnlock" >> ]

InitRelock ==
    /\ phase = "boot"
    /\ currentSettings = ZeroSettings
    /\ settingsFile \in { UnloadableFile } \cup { LoadableFile(s) : s \in ConcStartSettings }
    /\ actionFile = "absent"
    /\ last = NoCall
    /\ settingsLock = [writer |-> "none", readers |-> {}]
    /\ pc = [p \in Procs \cup { "main" } |->
                IF p = "main" THEN initSteps(settingsFile.loadable) ELSE << >>]
    /\ local = [p \in Procs \cup { "main" } |-> ZeroLocal]
    /\ opsStarted = 0
    /\ serialSettings = ZeroSettings
    /\ AliasAtRest
    /\ LogAtRest
    /\ JailsAtRest
    /\ ActionAtRest
    /\ ConfAtRest
    /\ PatchAtRest
    /\ ReloadAtRest

AtStep(p, steps) == pc[p] # << >> /\ Head(pc[p]) \in steps

\* a request goroutine begins a call; init() has returned
RelockCall(p, call, new) ==
    /\ pc["main"] = << >>
    /\ pc[p] = << >>
    /\ opsStarted < MaxOps
    /\ pc' = [pc EXCEPT ![p] = CallSteps[call]]
    /\ local' = [local EXCEPT ![p] = [ZeroLocal EXCEPT !.new = new]]
    /\ opsStarted' = opsStarted + 1
    /\ UNCHANGED << storeVars, settingsLock, serialSettings, otherVars >>

\* settingsLock.Lock() goes through
RelockLock(p) ==
    /\ AtStep(p, { "Lock" })
    /\ LockFree
    /\ settingsLock' = [settingsLock EXCEPT !.writer = p]
    /\ pc' = [pc EXCEPT ![p] = Tail(@)]
    /\ UNCHANGED << storeVars, local, opsStarted, serialSettings, otherVars >>

\* the deferred settingsLock.Unlock()
RelockUnlock(p) ==
    /\ AtStep(p, { "Unlock" })
    /\ settingsLock' = [settingsLock EXCEPT !.writer = "none"]
    /\ pc' = [pc EXCEPT ![p] = Tail(@)]
    /\ UNCHANGED << storeVars, local, opsStarted, serialSettings, otherVars >>

\* settingsLock.RLock() goes through: sync.RWMutex gives no read lock while
\* a goroutine, the caller included, holds the write lock
RelockRLock(p) ==
    /\ AtStep(p, { "RLock" })
    /\ RLockFree
    /\ settingsLock' = [settingsLock EXCEPT !.readers = @ \cup { p }]
    /\ pc' = [pc EXCEPT ![p] = Tail(@)]
    /\ UNCHANGED << storeVars, local, opsStarted, serialSettings, otherVars >>

\* the deferred settingsLock.RUnlock()
RelockRUnlock(p) ==
    /\ AtStep(p, { "RUnlock" })
    /\ settingsLock' = [settingsLock EXCEPT !.readers = @ \ { p }]
    /\ pc' = [pc EXCEPT ![p] = Tail(@)]
    /\ UNCHANGED << storeVars, local, opsStarted, serialSettings, otherVars >>

\* the assignment to currentSettings under the write lock (part_004:185,
\* 216, 263, 275)
RelockAssign(p) ==
    /\ AtStep(p, { "defaults", "load", "store", "clear" })
    /\ currentSettings' =
          CASE Head(pc[p]) = "defaults" -> OldDefaults
            [] Head(pc[p]) = "load" -> Unmarshal(settingsFile.json)
            [] Head(pc[p]) = "store" -> OldMerged(currentSettings, local[p].new)
            [] Head(pc[p]) = "clear" -> ReloadDone(currentSettings)
    /\ pc' = [pc EXCEPT ![p] = Tail(@)]
    /\ UNCHANGED << phase, settingsFile, actionFile, last, settingsLock, local,
                    opsStarted, serialSettings, otherVars >>

\* os.WriteFile(settingsFile, b, 0644) (part_004:229)
RelockWrite(p) ==
    /\ AtStep(p, { "write" })
    /\ settingsFile' = LoadableFile(currentSettings)
    /\ pc' = [pc EXCEPT ![p] = Tail(@)]
    /\ UNCHANGED << phase, currentSettings, actionFile, last, settingsLock, local,
                    opsStarted, serialSettings, otherVars >>

\* return currentSettings (part_004:236)
RelockCopy(p) ==
    /\ AtStep(p, { "copy" })
    /\ local' = [local EXCEPT ![p].snap = currentSettings]
    /\ pc' = [pc EXCEPT ![p] = Tail(@)]
    /\ UNCHANGED << storeVars, settingsLock, opsStarted, serialSettings, otherVars >>

NextRelock ==
    \/ \E p \in Procs, call \in DOMAIN CallSteps, new \in ConcPayloads : RelockCall(p, call, new)
    \/ \E p \in DOMAIN pc : RelockLock(p)
    \/ \E p \in DOMAIN pc : RelockUnlock(p)
    \/ \E p \in DOMAIN pc : RelockRLock(p)
    \/ \E p \in DOMAIN pc : RelockRUnlock(p)
    \/ \E p \in DOMAIN pc : RelockAssign(p)
    \/ \E p \in DOMAIN pc : RelockWrite(p)
    \/ \E p \in DOMAIN pc : RelockCopy(p)

SpecRelock == InitRelock /\ [][NextRelock]_vars

\* C27: no goroutine comes to take the settings lock, in read or in write
\* mode, while it holds the write lock itself
C27_NoLockUnderWriteLock ==
    \A p \in DOMAIN pc :
        AtStep(p, { "Lock", "RLock" }) => settingsLock.writer # p

====
